---------------------------- MODULE Spec2Model ----------------------------
(***************************************************************************)
(* embedded-pcf: the PCF font container parser (pcf.rs), the glyph lookup  *)
(* pipeline of an opened font handle, and the text layout engine           *)
(* (style.rs, draw_target.rs).  The byte source is an in-memory cursor     *)
(* over immutable bytes, as in the crate's tests (std::io::Cursor).        *)
(***************************************************************************)
EXTENDS Integers, Sequences, FiniteSets, TLC

VARIABLES
    rcp,      \* the recipe the byte source was assembled from (never read by the program)
    ld,       \* activation record of load_pcf_font (cursor, locals, result)
    font,     \* the opened font handle (PcfFont), or NoFont
    out,      \* what the last operation on the handle returned
    dr,       \* activation record of the draw scenario (style.rs)
    lk,       \* two glyph lookups in progress over the bytes of one font
    calc      \* a call of a pure function: its arguments and what it returned

vars == <<rcp, ld, font, out, dr, lk, calc>>

\* The two build profiles: with overflow checks ("debug") an arithmetic overflow
\* panics, without them ("release") it wraps.
Builds == {"debug", "release"}

(***************************************************************************)
(* Bounds of the model.                                                    *)
(***************************************************************************)
\* truncated copies of a container are cut every TruncStep bytes
TruncStep == 7
\* code points asked of a handle: 0 .. MaxCodeLow in rows 0 and 1
MaxCodeLow == 4
\* glyph indices whose metrics are asked of a handle: 0 .. MaxGlyphIndex
MaxGlyphIndex == 6

(***************************************************************************)
(* Integer widths.  TLC's integers are 32 bits wide, so a u32 *)
(* of the program is held as the integer with the same 32-bit pattern: a   *)
(* value v < 2^31 as v, a value v >= 2^31 as v - 2^32 (a negative number). *)
(* Equality, the low bits and decrement are those of v.  A cursor position *)
(* (a u64) is held exactly below Far and as Far from there on: no source   *)
(* of the model is that long, so every read at Far fails, as it does at    *)
(* the exact position.                                                     *)
(***************************************************************************)
Pow2(n) == 2 ^ n

Far == Pow2(30)

\* `v as u64`, as a position
PosOfU32(v) == IF v < 0 \/ v >= Far THEN Far ELSE v

\* p + d for a position p and a u32 (or small natural) d
PosAdd(p, d) == IF d < 0 \/ d >= Far THEN Far ELSE IF p >= Far - d THEN Far ELSE p + d

\* v * 4 for a u32 v, as a distance
Times4(v) == IF v < 0 \/ v >= Far \div 4 THEN Far ELSE v * 4

\* v - 1 for a u32 v > 0
U32Pred(v) == IF v = -Pow2(30) - Pow2(30) THEN (Pow2(30) - 1) + Pow2(30) ELSE v - 1

\* the signed reading of a most significant byte
TopByte(x) == IF x >= 128 THEN x - 256 ELSE x

\* `x as i16` of a 16-bit pattern
AsI16(x) == IF (x % Pow2(16)) >= Pow2(15) THEN (x % Pow2(16)) - Pow2(16) ELSE x % Pow2(16)

\* the 16-bit pattern of a signed 16-bit value (`x as u16`)
AsU16(x) == x % Pow2(16)

\* Bitwise AND of two naturals
RECURSIVE BitAnd(_, _)
BitAnd(a, b) ==
    IF a = 0 \/ b = 0 THEN 0
    ELSE (a % 2) * (b % 2) + 2 * BitAnd(a \div 2, b \div 2)

(***************************************************************************)
(* Checked arithmetic: [panic, v].  In a debug build an out-of-range       *)
(* result panics, in a release build it wraps to v.                        *)
(***************************************************************************)
WrapSigned(x, bits) ==
    LET m == x % Pow2(bits) IN IF m >= Pow2(bits - 1) THEN m - Pow2(bits) ELSE m

\* the result of a signed operation of `bits` width whose exact value is x
CheckedS(b, x, bits) ==
    [panic |-> b = "debug" /\ ~(x >= -Pow2(bits - 1) /\ x < Pow2(bits - 1)),
     v |-> WrapSigned(x, bits)]

\* the result of an unsigned operation of `bits` width whose exact value is x
CheckedU(b, x, bits) ==
    [panic |-> b = "debug" /\ ~(x >= 0 /\ x < Pow2(bits)),
     v |-> x % Pow2(bits)]

(***************************************************************************)
(* Byte codec utilities (utils.rs).  buf is a sequence of bytes; the       *)
(* functions read its first 4 (or 2) bytes, whatever its length.           *)
(***************************************************************************)
Byte == 0 .. 255

\* value |= (buf[i] as u32) << (i * 8), i = 0..3: the 4 byte lanes are disjoint.
\* The result is the u32 with these 4 bytes (held by its 32-bit pattern).
u32_from_le_bytes_ref(buf) ==
    buf[1] + buf[2] * Pow2(8) + buf[3] * Pow2(16) + TopByte(buf[4]) * Pow2(24)

\* the big-endian function reading the bytes in little-endian order
u32_from_be_bytes_ref_unswapped(buf) ==
    buf[1] + buf[2] * Pow2(8) + buf[3] * Pow2(16) + TopByte(buf[4]) * Pow2(24)

\* value |= (buf[i] as u32) << ((3 - i) * 8)
u32_from_be_bytes_ref(buf) ==
    TopByte(buf[1]) * Pow2(24) + buf[2] * Pow2(16) + buf[3] * Pow2(8) + buf[4]

\* `u32 as i32`: the same 32-bit pattern, read as a signed value
i32_from_le_bytes_ref(buf) == u32_from_le_bytes_ref(buf)

i32_from_be_bytes_ref(buf) == u32_from_be_bytes_ref(buf)

u16_from_le_bytes_ref(buf) == buf[1] + buf[2] * Pow2(8)

u16_from_be_bytes_ref(buf) == buf[2] + buf[1] * Pow2(8)

i16_from_le_bytes_ref(buf) == AsI16(buf[1] + buf[2] * Pow2(8))

i16_from_be_bytes_ref(buf) == AsI16(buf[2] + buf[1] * Pow2(8))

(***************************************************************************)
(* The byte source: io::Read + io::Seek over immutable bytes.              *)
(* A source is [bytes, pos]; pos may lie past the end after a seek.        *)
(* Offsets and distances are positions (0 .. Far).                         *)
(***************************************************************************)
Source(bytes, pos) == [bytes |-> bytes, pos |-> pos]

\* Seek::rewind / seek(SeekFrom::Start(off))
SeekStart(src, off) == [src EXCEPT !.pos = off]

\* seek(SeekFrom::Current(d)) and seek_relative(d); a negative position fails
SeekRelOk(src, d) == d >= 0 \/ src.pos + d >= 0

SeekRel(src, d) == [src EXCEPT !.pos = IF d >= 0 THEN PosAdd(src.pos, d) ELSE src.pos + d]

\* read_exact(n): succeeds iff n bytes remain at pos (reading nothing succeeds)
ReadOk(src, n) == n = 0 \/ (src.pos < Far /\ src.pos + n <= Len(src.bytes))

\* the bytes a successful read_exact(n) delivers
ReadBuf(src, n) == SubSeq(src.bytes, src.pos + 1, src.pos + n)

\* the source after read_exact(n): advanced by n, or left at the end on failure
ReadAdvance(src, n) ==
    IF ReadOk(src, n) THEN [src EXCEPT !.pos = PosAdd(src.pos, n)]
    ELSE [src EXCEPT !.pos = Len(src.bytes)]

\* buffer[lo..hi] := b (Rust's half-open range lo..hi, 0-based)
Overlay(buffer, lo, b) ==
    [i \in 1 .. Len(buffer) |->
        IF i > lo /\ i <= lo + Len(b) THEN b[i - lo] ELSE buffer[i]]

\* &buffer[lo..hi]
Slice(buffer, lo, hi) == SubSeq(buffer, lo + 1, hi)

(***************************************************************************)
(* The container layout (pcf.rs, as load_pcf_font and the lookups read     *)
(* it): the encoders and the table bodies from which the model's byte      *)
(* sources are assembled.                                                  *)
(***************************************************************************)
RECURSIVE Flatten(_)
Flatten(ss) == IF ss = <<>> THEN <<>> ELSE Head(ss) \o Flatten(Tail(ss))

LE32(v) == <<v % 256, (v \div 256) % 256, (v \div 65536) % 256, (v \div 16777216) % 256>>
BE32(v) == <<(v \div 16777216) % 256, (v \div 65536) % 256, (v \div 256) % 256, v % 256>>
\* a signed 32-bit value, most significant byte first
BE32S(v) == IF v >= 0 THEN BE32(v)
            ELSE <<255 - (((-v - 1) \div 16777216) % 256), 255 - (((-v - 1) \div 65536) % 256),
                   255 - (((-v - 1) \div 256) % 256), 255 - ((-v - 1) % 256)>>
BE16(v) == <<(v \div 256) % 256, v % 256>>
\* a signed 16-bit value, most significant byte first
BE16S(v) == BE16(AsU16(v))

\* TableType discriminants (pcf.rs 57-72)
TT_Properties == 1
TT_Accelerators == 2
TT_Metrics == 4
TT_Bitmaps == 8
TT_InkMetrics == 16
TT_BdfEncodings == 32
TT_Swidths == 64
TT_GlyphNames == 128
TT_BdfAccelerators == 256

\* format flags (pcf.rs 81-95)
PCF_ACCEL_W_INKBOUNDS == 256
PCF_COMPRESSED_METRICS == 256
PCF_GLYPH_PAD_MASK == 3
PCF_BYTE_MASK == 4
PCF_BIT_MASK == 8
PCF_SCAN_UNIT_MASK == 48

\* A metrics entry (MetricsEntry)
Metrics(l, r, w, a, d, attr) ==
    [left_side_bearing |-> l, right_side_bearing |-> r, character_width |-> w,
     character_ascent |-> a, character_descent |-> d, character_attributes |-> attr]

\* the 12-byte standard encoding and the 5-byte compressed encoding of an entry
StdMetricsBytes(m) ==
    BE16S(m.left_side_bearing) \o BE16S(m.right_side_bearing) \o BE16S(m.character_width)
        \o BE16S(m.character_ascent) \o BE16S(m.character_descent) \o BE16(m.character_attributes)

CompMetricsBytes(m) ==
    <<(m.left_side_bearing + 128) % 256, (m.right_side_bearing + 128) % 256,
      (m.character_width + 128) % 256, (m.character_ascent + 128) % 256,
      (m.character_descent + 128) % 256>>

\* the row padding unit in bytes of the bitmaps format's two low bits
PadUnit(fmt) == Pow2(fmt % 4)

RowPadded(row, unit) ==
    LET n == ((Len(row) + unit - 1) \div unit) * unit
    IN  row \o [i \in 1 .. n - Len(row) |-> 0]

\* a glyph is [m: metrics, rows: the canonical (byte-padded) rows of its bitmap]
GlyphData(g, unit) == Flatten([i \in 1 .. Len(g.rows) |-> RowPadded(g.rows[i], unit)])

RECURSIVE GlyphOffsets(_, _, _)
GlyphOffsets(glyphs, unit, at) ==
    IF glyphs = <<>> THEN <<>>
    ELSE <<at>> \o GlyphOffsets(Tail(glyphs), unit, at + Len(GlyphData(Head(glyphs), unit)))

\* Bitmaps table: format, glyph_count, offsets, 4 bitmap sizes, data
BitmapsBody(r) ==
    LET unit == PadUnit(r.fmtB)
        offs == IF r.offsets # <<>> THEN r.offsets ELSE GlyphOffsets(r.glyphs, unit, 0)
        dat  == Flatten([i \in 1 .. Len(r.glyphs) |-> GlyphData(r.glyphs[i], unit)])
    IN  LE32(r.fmtB) \o BE32(r.glyph_count)
        \o Flatten([i \in 1 .. Len(offs) |-> BE32(offs[i])])
        \o BE32(Len(dat)) \o BE32(Len(dat)) \o BE32(Len(dat)) \o BE32(Len(dat))
        \o dat

\* Metrics table: format, count (16 bits when compressed), entries
MetricsBody(r) ==
    LET comp == BitAnd(r.fmtM, PCF_COMPRESSED_METRICS) > 0
    IN  LE32(r.fmtM)
        \o (IF comp THEN BE16(r.metrics_count) ELSE BE32(r.metrics_count))
        \o Flatten([i \in 1 .. Len(r.glyphs) |->
                IF comp THEN CompMetricsBytes(r.glyphs[i].m) ELSE StdMetricsBytes(r.glyphs[i].m)])

\* Encodings table: format, 5 fields, the glyph indices
EncodingsBody(r) ==
    LE32(r.fmtE) \o BE16(r.enc.min2) \o BE16(r.enc.max2) \o BE16(r.enc.min1)
        \o BE16(r.enc.max1) \o BE16(r.enc.def)
        \o Flatten([i \in 1 .. Len(r.enc.idx) |-> BE16(r.enc.idx[i])])

\* Accelerator table: format, 8 flag bytes, ascent, descent, maxOverlap,
\* minbounds, maxbounds and, with the ink-bounds flag, the two ink bounds
AccelBody(fmt, a) ==
    LE32(fmt) \o <<0, 0, 0, 0, 0, 0, 0, 0>>
        \o BE32S(a.ascent) \o BE32S(a.descent) \o BE32S(a.overlap)
        \o StdMetricsBytes(a.minb) \o StdMetricsBytes(a.maxb)
        \o (IF BitAnd(fmt, PCF_ACCEL_W_INKBOUNDS) > 0
            THEN StdMetricsBytes(a.inkmin) \o StdMetricsBytes(a.inkmax) ELSE <<>>)

\* the body of the table of kind k of recipe r
TableBody(r, k) ==
    CASE k = TT_Bitmaps -> BitmapsBody(r)
      [] k = TT_Metrics -> MetricsBody(r)
      [] k = TT_BdfEncodings -> EncodingsBody(r)
      [] k = TT_BdfAccelerators -> AccelBody(r.fmtA, r.acc)
      [] k = TT_Accelerators -> AccelBody(r.fmtP, r.accPlain)
      [] OTHER -> LE32(0) \o <<1, 2, 3, 4>>

TableFormat(r, k) ==
    CASE k = TT_Bitmaps -> r.fmtB
      [] k = TT_Metrics -> r.fmtM
      [] k = TT_BdfEncodings -> r.fmtE
      [] k = TT_BdfAccelerators -> r.fmtA
      [] k = TT_Accelerators -> r.fmtP
      [] OTHER -> 0

RECURSIVE TableOffsets(_, _, _)
TableOffsets(r, kinds, at) ==
    IF kinds = <<>> THEN <<>>
    ELSE <<at>> \o TableOffsets(r, Tail(kinds), at + Len(TableBody(r, Head(kinds))))

\* the whole container: magic, table count, the records, the bodies in record order
Container(r) ==
    LET n    == Len(r.toc)
        offs == TableOffsets(r, r.toc, 8 + 16 * n)
        recs == Flatten([i \in 1 .. n |->
                    LE32(r.toc[i]) \o LE32(TableFormat(r, r.toc[i]))
                        \o LE32(Len(TableBody(r, r.toc[i]))) \o LE32(offs[i])])
        all  == r.magic \o LE32(r.table_count) \o recs
                    \o Flatten([i \in 1 .. n |-> TableBody(r, r.toc[i])])
    IN  SubSeq(all, 1, IF r.keep < Len(all) THEN r.keep ELSE Len(all))

(***************************************************************************)
(* pcf.rs: results, metrics decoding, bytes_per_row.                       *)
(***************************************************************************)
NoResult == [tag |-> "None", err |-> ""]
Ok == [tag |-> "Ok", err |-> ""]
Err(e) == [tag |-> "Err", err |-> e]
\* the thread panicked: no value is returned
Panic == [tag |-> "Panic", err |-> ""]

\* bytes_per_row(width, bytes_align), for 0 <= width
bytes_per_row(width, bytes_align) ==
    LET unit_align_bits == bytes_align * 8
        block_count == (width + unit_align_bits - 1) \div unit_align_bits
    IN  block_count * bytes_align

\* the advance width taken as the byte is
new_from_compressed_raw_width(data) ==
    Metrics(data[1] - 128, data[2] - 128, data[3], data[4] - 128, data[5] - 128, 0)

\* MetricsEntry::new_from_compressed(data): data[0..5], each byte minus 0x80
new_from_compressed(data) ==
    Metrics(data[1] - 128, data[2] - 128, data[3] - 128, data[4] - 128, data[5] - 128, 0)

\* MetricsEntry::new_from_standard slices data[0..=2] .. data[10..=12]: the last
\* slice needs 13 bytes, and indexing past the slice panics
new_from_standard_in_bounds(data) == Len(data) >= 13

new_from_standard(data) ==
    Metrics(i16_from_be_bytes_ref(SubSeq(data, 1, 3)),
            i16_from_be_bytes_ref(SubSeq(data, 3, 5)),
            i16_from_be_bytes_ref(SubSeq(data, 5, 7)),
            i16_from_be_bytes_ref(SubSeq(data, 7, 9)),
            i16_from_be_bytes_ref(SubSeq(data, 9, 11)),
            u16_from_be_bytes_ref(SubSeq(data, 11, 13)))

(***************************************************************************)
(* load_pcf_font (pcf.rs 416-587), one operator per stage.  l is the       *)
(* activation record: the byte source, the 16-byte buffer, table_toc, the  *)
(* locals and the result.                                                  *)
(***************************************************************************)
NoEntry == [present |-> FALSE, format |-> 0, size |-> 0, offset |-> 0]

TocEntry(f, s, o) == [present |-> TRUE, format |-> f, size |-> s, offset |-> o]

ZeroMetrics == Metrics(0, 0, 0, 0, 0, 0)

\* the activation record on entry to load_pcf_font(data)
LoadEntry(src) ==
    [pc |-> "magic", data |-> src, buffer |-> [i \in 1 .. 16 |-> 0],
     table_toc |-> [i \in 1 .. 5 |-> NoEntry], remaining |-> 0,
     glyph_row_padding_format |-> "Byte", glyph_count |-> 0,
     metrics_compressed |-> FALSE,
     min_char_or_byte2 |-> 0, max_char_or_byte2 |-> 0, min_byte1 |-> 0, max_byte1 |-> 0,
     default_char |-> 0, ascent |-> 0, descent |-> 0,
     bounding_box |-> <<0, 0, 0, 0>>, result |-> NoResult]

\* return Err(e) / panic
LoadFail(l, src, e) == [l EXCEPT !.pc = "done", !.data = src, !.result = Err(e)]
LoadPanic(l, src) == [l EXCEPT !.pc = "done", !.data = src, !.result = Panic]

PCF_MAGIC == <<1, 102, 99, 112>>

\* step_magic without the rewind of 421: the signature is read at the cursor
step_magic_at_cursor(l) ==
    LET s1 == ReadAdvance(l.data, 4)
    IN  IF ~ReadOk(l.data, 4) THEN LoadFail(l, s1, "Io")
        ELSE LET buf == Overlay(l.buffer, 0, ReadBuf(l.data, 4))
             IN  IF Slice(buf, 0, 4) # PCF_MAGIC
                 THEN LoadFail([l EXCEPT !.buffer = buf], s1, "UnsupportedFormat")
                 ELSE [l EXCEPT !.pc = "toc_count", !.data = s1, !.buffer = buf]

\* 420-427: rewind, read and verify the signature
step_magic(l) ==
    LET s0 == SeekStart(l.data, 0)
        s1 == ReadAdvance(s0, 4)
    IN  IF ~ReadOk(s0, 4) THEN LoadFail(l, s1, "Io")
        ELSE LET buf == Overlay(l.buffer, 0, ReadBuf(s0, 4))
             IN  IF Slice(buf, 0, 4) # PCF_MAGIC
                 THEN LoadFail([l EXCEPT !.buffer = buf], s1, "UnsupportedFormat")
                 ELSE [l EXCEPT !.pc = "toc_count", !.data = s1, !.buffer = buf]

\* 430-433: the table count, little-endian; the loop runs table_count times
step_toc_count(l) ==
    LET s1 == ReadAdvance(l.data, 4)
    IN  IF ~ReadOk(l.data, 4) THEN LoadFail(l, s1, "Io")
        ELSE LET buf == Overlay(l.buffer, 0, ReadBuf(l.data, 4))
                 table_count == u32_from_le_bytes_ref(Slice(buf, 0, 4))
             IN  [l EXCEPT !.pc = IF table_count # 0 THEN "toc_entry" ELSE "verify",
                           !.data = s1, !.buffer = buf, !.remaining = table_count]

\* TableType::from_primitive and the match of 441-448: the table_toc slot
\* (1-based) a record of this type is kept in, 0 when it is discarded
TocSlot(table_type) ==
    CASE table_type = TT_Bitmaps -> 1
      [] table_type = TT_Metrics -> 2
      [] table_type = TT_BdfEncodings -> 3
      [] table_type = TT_BdfAccelerators -> 4
      [] table_type = TT_Accelerators -> 5
      [] OTHER -> 0

\* 433-449: one iteration of the table-of-contents loop
step_toc_entry(l) ==
    LET s1 == ReadAdvance(l.data, 16)
    IN  IF ~ReadOk(l.data, 16) THEN LoadFail(l, s1, "Io")
        ELSE LET buf == Overlay(l.buffer, 0, ReadBuf(l.data, 16))
                 table_type == u32_from_le_bytes_ref(Slice(buf, 0, 4))
                 entry == TocEntry(u32_from_le_bytes_ref(Slice(buf, 4, 8)),
                                   u32_from_le_bytes_ref(Slice(buf, 8, 12)),
                                   u32_from_le_bytes_ref(Slice(buf, 12, 16)))
                 slot == TocSlot(table_type)
             IN  [l EXCEPT !.pc = IF l.remaining # 1 THEN "toc_entry" ELSE "verify",
                           !.data = s1, !.buffer = buf, !.remaining = U32Pred(l.remaining),
                           !.table_toc = IF slot = 0 THEN @ ELSE [@ EXCEPT ![slot] = entry]]

\* the test of 460 with the bit-order flag left out
MsbFirst_byte_only(format) == BitAnd(format, PCF_BYTE_MASK) = PCF_BYTE_MASK

\* 460: format & (BYTE | BIT) == (BYTE | BIT)
MsbFirst(format) ==
    BitAnd(format, PCF_BYTE_MASK + PCF_BIT_MASK) = PCF_BYTE_MASK + PCF_BIT_MASK

\* the loop of 456-465 split in two: the flags of every present table first,
\* the missing tables afterwards
verify_tables_flags_first(toc, i) ==
    IF \E j \in i .. 4 : toc[j].present /\ ~MsbFirst(toc[j].format)
    THEN Err("UnsupportedFormat")
    ELSE IF \E j \in i .. 4 : ~toc[j].present THEN Err("CorruptedData")
    ELSE Ok

\* 456-465: the loop over table_toc[..4]; the first offending slot decides
RECURSIVE verify_tables(_, _)
verify_tables(toc, i) ==
    IF i > 4 THEN Ok
    ELSE IF ~toc[i].present THEN Err("CorruptedData")
    ELSE IF ~MsbFirst(toc[i].format) THEN Err("UnsupportedFormat")
    ELSE verify_tables(toc, i + 1)

\* GlyphPaddingFormat::from_primitive
GlyphPaddingFormat(v) ==
    CASE v = 1 -> "Short" [] v = 2 -> "Int" [] OTHER -> "Byte"

\* 451-487: substitute the plain accelerators, verify the four tables, the
\* scan unit and the padding bits
step_verify(l) ==
    LET toc == IF ~l.table_toc[4].present THEN [l.table_toc EXCEPT ![4] = l.table_toc[5]]
               ELSE l.table_toc
        v   == verify_tables(toc, 1)
        pad == BitAnd(toc[1].format, PCF_GLYPH_PAD_MASK)
        l1  == [l EXCEPT !.table_toc = toc]
    IN  IF v.tag = "Err" THEN LoadFail(l1, l.data, v.err)
        ELSE IF BitAnd(toc[1].format, PCF_SCAN_UNIT_MASK) # 0
             THEN LoadFail(l1, l.data, "UnsupportedFormat")
        ELSE IF pad = PCF_GLYPH_PAD_MASK THEN LoadFail(l1, l.data, "CorruptedData")
        ELSE [l1 EXCEPT !.pc = "bitmaps", !.glyph_row_padding_format = GlyphPaddingFormat(pad)]

\* 493-497: glyph count, then skip the offsets and read 12 bytes of bitmapSizes
step_bitmaps(l) ==
    LET s0 == SeekStart(l.data, PosAdd(PosOfU32(l.table_toc[1].offset), 4))
        s1 == ReadAdvance(s0, 4)
    IN  IF ~ReadOk(s0, 4) THEN LoadFail(l, s1, "Io")
        ELSE LET buf == Overlay(l.buffer, 0, ReadBuf(s0, 4))
                 glyph_count == u32_from_be_bytes_ref(buf)
                 s2 == SeekRel(s1, Times4(glyph_count))
                 s3 == ReadAdvance(s2, 12)
             IN  IF ~ReadOk(s2, 12)
                 THEN LoadFail([l EXCEPT !.buffer = buf, !.glyph_count = glyph_count], s3, "Io")
                 ELSE [l EXCEPT !.pc = "metrics", !.data = s3,
                                !.buffer = Overlay(buf, 0, ReadBuf(s2, 12)),
                                !.glyph_count = glyph_count]

\* step_metrics without the comparison of 512-514
step_metrics_any_count(l) ==
    LET s0 == SeekStart(l.data, PosOfU32(l.table_toc[2].offset))
        s1 == ReadAdvance(s0, 8)
    IN  IF ~ReadOk(s0, 8) THEN LoadFail(l, s1, "Io")
        ELSE [l EXCEPT !.pc = "encodings", !.data = s1,
                       !.buffer = Overlay(l.buffer, 0, ReadBuf(s0, 8)),
                       !.metrics_compressed =
                           BitAnd(l.table_toc[2].format, PCF_COMPRESSED_METRICS) > 0]

\* 502-514: the metrics header (8 bytes are read in both encodings)
step_metrics(l) ==
    LET s0 == SeekStart(l.data, PosOfU32(l.table_toc[2].offset))
        s1 == ReadAdvance(s0, 8)
    IN  IF ~ReadOk(s0, 8) THEN LoadFail(l, s1, "Io")
        ELSE LET buf == Overlay(l.buffer, 0, ReadBuf(s0, 8))
                 metrics_compressed ==
                     BitAnd(l.table_toc[2].format, PCF_COMPRESSED_METRICS) > 0
                 metrics_count ==
                     IF metrics_compressed THEN u16_from_be_bytes_ref(Slice(buf, 4, 6))
                     ELSE u32_from_be_bytes_ref(Slice(buf, 4, 8))
                 l1 == [l EXCEPT !.buffer = buf, !.metrics_compressed = metrics_compressed]
             IN  IF metrics_count # l.glyph_count THEN LoadFail(l1, s1, "CorruptedData")
                 ELSE [l1 EXCEPT !.pc = "encodings", !.data = s1]

\* 519-525: the encoding header; default_char is decoded from buffer[6..8]
step_encodings(l) ==
    LET s0 == SeekStart(l.data, PosAdd(PosOfU32(l.table_toc[3].offset), 4))
        s1 == ReadAdvance(s0, 10)
    IN  IF ~ReadOk(s0, 10) THEN LoadFail(l, s1, "Io")
        ELSE LET buf == Overlay(l.buffer, 0, ReadBuf(s0, 10))
             IN  [l EXCEPT !.pc = "accel", !.data = s1, !.buffer = buf,
                           !.min_char_or_byte2 = u16_from_be_bytes_ref(Slice(buf, 0, 2)),
                           !.max_char_or_byte2 = u16_from_be_bytes_ref(Slice(buf, 2, 4)),
                           !.min_byte1 = u16_from_be_bytes_ref(Slice(buf, 4, 6)),
                           !.max_byte1 = u16_from_be_bytes_ref(Slice(buf, 6, 8)),
                           !.default_char = u16_from_be_bytes_ref(Slice(buf, 6, 8))]

\* 548-555: the bounding box, in i16 arithmetic
bounding_box_of(b, minbounds, maxbounds) ==
    LET width == CheckedS(b, maxbounds.right_side_bearing - minbounds.left_side_bearing, 16)
        height == CheckedS(b, maxbounds.character_ascent + maxbounds.character_descent, 16)
        y_off == CheckedS(b, -maxbounds.character_descent, 16)
    IN  [panic |-> width.panic \/ height.panic \/ y_off.panic,
         v |-> <<width.v, height.v, minbounds.left_side_bearing, y_off.v>>]

\* 530-556: ascent, descent, skip maxOverlap and (on demand) 24 bytes, then
\* the two bounds
step_accel(b, l) ==
    LET s0 == SeekStart(l.data, PosAdd(PosOfU32(l.table_toc[4].offset), 4 + 8))
        s1 == ReadAdvance(s0, 8)
    IN  IF ~ReadOk(s0, 8) THEN LoadFail(l, s1, "Io")
        ELSE
        LET buf1 == Overlay(l.buffer, 0, ReadBuf(s0, 8))
            ascent == i32_from_be_bytes_ref(Slice(buf1, 0, 4))
            descent == i32_from_be_bytes_ref(Slice(buf1, 4, 8))
            s2 == SeekRel(s1, 4)
            s3 == IF BitAnd(l.table_toc[4].format, PCF_ACCEL_W_INKBOUNDS) > 0
                  THEN SeekRel(s2, 24) ELSE s2
            s4 == ReadAdvance(s3, 12)
            l1 == [l EXCEPT !.buffer = buf1, !.ascent = ascent, !.descent = descent]
        IN  IF ~ReadOk(s3, 12) THEN LoadFail(l1, s4, "Io")
            ELSE
            LET buf2 == Overlay(buf1, 0, ReadBuf(s3, 12))
                minbounds == new_from_standard(buf2)
                s5 == ReadAdvance(s4, 12)
            IN  IF ~ReadOk(s4, 12) THEN LoadFail([l1 EXCEPT !.buffer = buf2], s5, "Io")
                ELSE
                LET buf3 == Overlay(buf2, 0, ReadBuf(s4, 12))
                    maxbounds == new_from_standard(buf3)
                    bb == bounding_box_of(b, minbounds, maxbounds)
                    l2 == [l1 EXCEPT !.buffer = buf3]
                IN  IF bb.panic THEN LoadPanic(l2, s5)
                    ELSE [l2 EXCEPT !.pc = "finish", !.data = s5, !.bounding_box = bb.v]

\* the handle with the metrics entries taken to start after a 32-bit count
\* in both encodings
handle_of_wide_count(l) ==
    [data |-> l.data,
     glyph_count |-> l.glyph_count,
     ascent |-> l.ascent,
     descent |-> l.descent,
     metrics_compressed |-> l.metrics_compressed,
     bounding_box |-> l.bounding_box,
     glyph_row_padding_format |-> l.glyph_row_padding_format,
     min_char_or_byte2 |-> l.min_char_or_byte2,
     max_char_or_byte2 |-> l.max_char_or_byte2,
     min_byte1 |-> l.min_byte1,
     max_byte1 |-> l.max_byte1,
     default_char |-> l.default_char,
     encoded_glyph_indices_location |-> l.table_toc[3].offset + 4 + 5 * 2,
     bitmap_position_lut_location |-> l.table_toc[1].offset + 4 + 4,
     bitmap_data_location |-> l.table_toc[1].offset + 4 + 4 + (l.glyph_count + 4) * 4,
     metrics_data_location |-> l.table_toc[2].offset + 4 + 4]

\* 558-586: the four absolute offsets and the handle
handle_of(l) ==
    LET bitmap_position_lut_location == l.table_toc[1].offset + 4 + 4
    IN  [data |-> l.data,
         glyph_count |-> l.glyph_count,
         ascent |-> l.ascent,
         descent |-> l.descent,
         metrics_compressed |-> l.metrics_compressed,
         bounding_box |-> l.bounding_box,
         glyph_row_padding_format |-> l.glyph_row_padding_format,
         min_char_or_byte2 |-> l.min_char_or_byte2,
         max_char_or_byte2 |-> l.max_char_or_byte2,
         min_byte1 |-> l.min_byte1,
         max_byte1 |-> l.max_byte1,
         default_char |-> l.default_char,
         encoded_glyph_indices_location |-> l.table_toc[3].offset + 4 + 5 * 2,
         bitmap_position_lut_location |-> bitmap_position_lut_location,
         bitmap_data_location |-> bitmap_position_lut_location + (l.glyph_count + 4) * 4,
         metrics_data_location |->
             l.table_toc[2].offset + 4 + (IF l.metrics_compressed THEN 2 ELSE 4)]

step_finish(l) == [l EXCEPT !.pc = "done", !.result = Ok]

\* the stage at l.pc
load_step(b, l) ==
    CASE l.pc = "magic" -> step_magic(l)
      [] l.pc = "toc_count" -> step_toc_count(l)
      [] l.pc = "toc_entry" -> step_toc_entry(l)
      [] l.pc = "verify" -> step_verify(l)
      [] l.pc = "bitmaps" -> step_bitmaps(l)
      [] l.pc = "metrics" -> step_metrics(l)
      [] l.pc = "encodings" -> step_encodings(l)
      [] l.pc = "accel" -> step_accel(b, l)
      [] l.pc = "finish" -> step_finish(l)
      [] OTHER -> l

\* load_pcf_font(data) run to completion
RECURSIVE load_run(_, _)
load_run(b, l) == IF l.pc = "done" THEN l ELSE load_run(b, load_step(b, l))

NoFont == [glyph_count |-> -1]

\* load_pcf_font(data): the handle, or NoFont when it returns Err or panics
load_pcf_font(b, src) ==
    LET l == load_run(b, LoadEntry(src))
    IN  IF l.result.tag = "Ok" THEN handle_of(l) ELSE NoFont

(***************************************************************************)
(* Lookups on an opened handle (pcf.rs 301-398).  Every operator returns   *)
(* [tag, err, val, data]: the outcome (Ok / Err / Panic / Hang), the value *)
(* of an Ok, and the byte source as the call leaves it.                    *)
(***************************************************************************)
Ret(tag, err, val, src) == [tag |-> tag, err |-> err, val |-> val, data |-> src]

\* 346-348: indice_offset, in u16 arithmetic
indice_offset_of(b, f, enc1, enc2) ==
    LET span == CheckedU(b, f.max_char_or_byte2 - f.min_char_or_byte2 + 1, 16)
        prod == CheckedU(b, (enc1 - f.min_byte1) * span.v, 16)
        sum  == CheckedU(b, prod.v + (enc2 - f.min_char_or_byte2), 16)
    IN  [panic |-> span.panic \/ prod.panic \/ sum.panic, v |-> sum.v]

\* get_glyph_index reading the entry where the cursor stands
get_glyph_index_at_cursor(b, f, code_point) ==
    IF ~(f.min_byte1 <= (code_point \div 256) % 256 /\ (code_point \div 256) % 256 <= f.max_byte1)
       \/ ~(f.min_char_or_byte2 <= code_point % 256 /\ code_point % 256 <= f.max_char_or_byte2)
    THEN Ret("Err", "NotFound", 0, f.data)
    ELSE IF ~ReadOk(f.data, 2) THEN Ret("Err", "Io", 0, ReadAdvance(f.data, 2))
    ELSE IF u16_from_be_bytes_ref(ReadBuf(f.data, 2)) = 65535
         THEN Ret("Err", "NotFound", 0, ReadAdvance(f.data, 2))
    ELSE Ret("Ok", "", u16_from_be_bytes_ref(ReadBuf(f.data, 2)), ReadAdvance(f.data, 2))

\* 336-362
get_glyph_index(b, f, code_point) ==
    LET enc1 == (code_point \div 256) % 256
        enc2 == code_point % 256
    IN  IF ~(f.min_byte1 <= enc1 /\ enc1 <= f.max_byte1)
           \/ ~(f.min_char_or_byte2 <= enc2 /\ enc2 <= f.max_char_or_byte2)
        THEN Ret("Err", "NotFound", 0, f.data)
        ELSE
        LET indice_offset == indice_offset_of(b, f, enc1, enc2)
        IN  IF indice_offset.panic THEN Ret("Panic", "", 0, f.data)
            ELSE
            LET s0 == SeekStart(f.data,
                        PosAdd(f.encoded_glyph_indices_location, indice_offset.v * 2))
                s1 == ReadAdvance(s0, 2)
            IN  IF ~ReadOk(s0, 2) THEN Ret("Err", "Io", 0, s1)
                ELSE LET glyph_index == u16_from_be_bytes_ref(ReadBuf(s0, 2))
                     IN  IF glyph_index = 65535 THEN Ret("Err", "NotFound", 0, s1)
                         ELSE Ret("Ok", "", glyph_index, s1)

\* 364-372
get_glyph_bitmap_offset(f, glyph_index) ==
    LET s0 == SeekStart(f.data, PosAdd(f.bitmap_position_lut_location, glyph_index * 4))
        s1 == ReadAdvance(s0, 4)
    IN  IF ~ReadOk(s0, 4) THEN Ret("Err", "Io", 0, s1)
        ELSE Ret("Ok", "", u32_from_be_bytes_ref(ReadBuf(s0, 4)), s1)

\* 384-390
get_metrics_compressed(f, cursor_offset) ==
    LET s0 == SeekStart(f.data, cursor_offset)
        s1 == ReadAdvance(s0, 5)
    IN  IF ~ReadOk(s0, 5) THEN Ret("Err", "Io", ZeroMetrics, s1)
        ELSE Ret("Ok", "", new_from_compressed(ReadBuf(s0, 5)), s1)

\* 392-398: the 12-byte buffer is handed to new_from_standard
get_metrics_standard(f, cursor_offset) ==
    LET s0 == SeekStart(f.data, cursor_offset)
        s1 == ReadAdvance(s0, 12)
    IN  IF ~ReadOk(s0, 12) THEN Ret("Err", "Io", ZeroMetrics, s1)
        ELSE LET buffer == ReadBuf(s0, 12)
             IN  IF ~new_from_standard_in_bounds(buffer) THEN Ret("Panic", "", ZeroMetrics, s1)
                 ELSE Ret("Ok", "", new_from_standard(buffer), s1)

\* 374-382
get_metrics(f, glyph_index) ==
    IF f.metrics_compressed
    THEN get_metrics_compressed(f, PosAdd(f.metrics_data_location, glyph_index * 5))
    ELSE get_metrics_standard(f, PosAdd(f.metrics_data_location, glyph_index * 12))

\* 280-286
override_default_char(f, value) == [f EXCEPT !.default_char = value]

\* the bytes of the padding unit of a handle (312-316)
PaddingBytes(fmt) == CASE fmt = "Short" -> 2 [] fmt = "Int" -> 4 [] OTHER -> 1

\* bytes_per_row(w as usize, align) for an i16 result w: a negative w is the
\* usize 2^64 + w.  width + unit_align_bits (101) overflows when
\* w >= -8 * align: a panic in a debug build; in a release build the sum
\* wraps to w + 8 * align, and the - 1 then gives block_count 0 for
\* w > -8 * align and wraps again to 2^64 - 1 (a huge count) for
\* w = -8 * align.  Below that nothing overflows and the count is huge.
row_bytes_usize(b, w, align) ==
    IF w >= 0 THEN [panic |-> FALSE, huge |-> FALSE, v |-> bytes_per_row(w, align)]
    ELSE IF w >= -8 * align /\ b = "debug" THEN [panic |-> TRUE, huge |-> FALSE, v |-> 0]
    ELSE IF w >= 1 - 8 * align THEN [panic |-> FALSE, huge |-> FALSE, v |-> 0]
    ELSE [panic |-> FALSE, huge |-> TRUE, v |-> 0]

\* a huge bytes_per_row(w as usize, 1) is 2^61 - huge_row_deficit(w), w <= -8
huge_row_deficit(w) == -((w + 7) \div 8)

\* the usize product height * row_bytes of 277 for a negative height h (the
\* usize 2^64 + h) and row_bytes = r < 2^31: 0 for r = 0, 2^64 + h for r = 1,
\* and past 2^64 otherwise (a panic, or the wrapped 2^64 + h * r)
product_negative_height(b, h, r) ==
    IF r = 0 THEN [panic |-> FALSE, huge |-> FALSE, v |-> 0]
    ELSE IF r = 1 THEN [panic |-> FALSE, huge |-> TRUE, v |-> 0]
    ELSE [panic |-> b = "debug", huge |-> b # "debug", v |-> 0]

\* the usize product height * row_bytes of 277 for row_bytes = 2^61 - k:
\* h * 2^61 - h * k stays below 2^64 for h in 0 .. 8; past that it overflows
\* (a panic), and wraps to (h mod 8) * 2^61 - h * k, which is small only for
\* a negative h that is a multiple of 8: then it is (-h) * k
product_huge_row(b, h, k) ==
    IF h = 0 THEN [panic |-> FALSE, huge |-> FALSE, v |-> 0]
    ELSE IF h >= 1 /\ h <= 8 THEN [panic |-> FALSE, huge |-> TRUE, v |-> 0]
    ELSE IF b = "debug" THEN [panic |-> TRUE, huge |-> FALSE, v |-> 0]
    ELSE IF h < 0 /\ h % 8 = 0 THEN [panic |-> FALSE, huge |-> FALSE, v |-> (-h) * k]
    ELSE [panic |-> FALSE, huge |-> TRUE, v |-> 0]

\* 272-278: bounding_box.0 and .1 as usize, height * bytes_per_row(width, 1),
\* in usize arithmetic; a negative side is a usize near 2^64
max_bytes_per_glyph(b, f) ==
    IF row_bytes_usize(b, f.bounding_box[1], 1).panic
    THEN [panic |-> TRUE, huge |-> FALSE, v |-> 0]
    ELSE IF row_bytes_usize(b, f.bounding_box[1], 1).huge
         THEN product_huge_row(b, f.bounding_box[2], huge_row_deficit(f.bounding_box[1]))
    ELSE IF f.bounding_box[2] < 0
         THEN product_negative_height(b, f.bounding_box[2],
                                      row_bytes_usize(b, f.bounding_box[1], 1).v)
    ELSE [panic |-> FALSE, huge |-> FALSE,
          v |-> f.bounding_box[2] * row_bytes_usize(b, f.bounding_box[1], 1).v]

\* bitmap_data_location + bitmap_offset, in u32 arithmetic: [panic, pos]
bitmap_position(b, location, bitmap_offset) ==
    IF bitmap_offset >= 0
    THEN [panic |-> FALSE, pos |-> PosAdd(location, bitmap_offset)]
    ELSE IF location + bitmap_offset >= 0
         THEN [panic |-> b = "debug", pos |-> location + bitmap_offset]
         ELSE [panic |-> FALSE, pos |-> Far]

\* 324-330: rows row .. glyph_height - 1 of the loop, writing into buf
RECURSIVE read_rows(_, _, _, _, _, _)
read_rows(src, buf, row, glyph_height, standard_row_bytes, skip_count) ==
    IF row >= glyph_height THEN [tag |-> "Ok", err |-> "", data |-> src, buf |-> buf]
    ELSE
    LET buf_start == row * standard_row_bytes
        buf_end == buf_start + standard_row_bytes
    IN  IF buf_end > Len(buf) THEN [tag |-> "Panic", err |-> "", data |-> src, buf |-> buf]
        ELSE IF ~ReadOk(src, standard_row_bytes)
             THEN [tag |-> "Err", err |-> "Io",
                   data |-> ReadAdvance(src, standard_row_bytes), buf |-> buf]
        ELSE read_rows(SeekRel(ReadAdvance(src, standard_row_bytes), skip_count),
                       Overlay(buf, buf_start, ReadBuf(src, standard_row_bytes)),
                       row + 1, glyph_height, standard_row_bytes, skip_count)

\* what read_glyph_raw returns: the outcome, (length, width), the metrics it
\* decoded, the caller's buffer and the byte source afterwards
Raw(tag, err, length, width, m, buf, src) ==
    [tag |-> tag, err |-> err, length |-> length, width |-> width,
     metrics |-> m, buf |-> buf, data |-> src]

\* 318-333: the glyph's rows, once its metrics and bitmap offset are known.
\* gw and gh are glyph_width() and glyph_height(), at the seek target of 322.
read_bitmap(b, f, buf, metrics, src, gw, gh, at) ==
    LET original == row_bytes_usize(b, gw.v, PaddingBytes(f.glyph_row_padding_format))
        standard == row_bytes_usize(b, gw.v, 1)
        s0 == SeekStart(src, at.pos)
    IN  IF gw.panic \/ gh.panic \/ original.panic \/ standard.panic \/ at.panic
        THEN Raw("Panic", "", 0, 0, metrics, buf, src)
        \* no row is read: length = 0 * standard_row_bytes
        ELSE IF gh.v = 0 THEN Raw("Ok", "", 0, gw.v, metrics, buf, s0)
        \* the first row's slice ends past any buffer
        ELSE IF standard.huge THEN Raw("Panic", "", 0, 0, metrics, buf, s0)
        \* 2^64 + h rows of no bytes
        ELSE IF gh.v < 0 /\ standard.v = 0 THEN Raw("Hang", "", 0, 0, metrics, buf, s0)
        ELSE
        LET rows == read_rows(s0, buf, 0, IF gh.v < 0 THEN Len(buf) + 1 ELSE gh.v,
                              standard.v, original.v - standard.v)
        IN  IF rows.tag # "Ok" THEN Raw(rows.tag, rows.err, 0, 0, metrics, rows.buf, rows.data)
            ELSE Raw("Ok", "", gh.v * standard.v, gw.v, metrics, rows.buf, rows.data)

\* 308-310: me is what get_metrics returned
read_with_metrics(b, f, buf, bitmap_offset, me) ==
    IF me.tag # "Ok" THEN Raw(me.tag, me.err, 0, 0, ZeroMetrics, buf, me.data)
    ELSE read_bitmap(b, f, buf, me.val, me.data,
             CheckedS(b, me.val.right_side_bearing - me.val.left_side_bearing, 16),
             CheckedS(b, me.val.character_ascent + me.val.character_descent, 16),
             bitmap_position(b, f.bitmap_data_location, bitmap_offset))

\* 307: bo is what get_glyph_bitmap_offset returned
read_with_offset(b, f, buf, glyph_index, bo) ==
    IF bo.tag # "Ok" THEN Raw(bo.tag, bo.err, 0, 0, ZeroMetrics, buf, bo.data)
    ELSE read_with_metrics(b, f, buf, bo.val,
                           get_metrics([f EXCEPT !.data = bo.data], glyph_index))

\* 306: gi is what get_glyph_index returned
read_with_index(b, f, buf, gi) ==
    IF gi.tag # "Ok" THEN Raw(gi.tag, gi.err, 0, 0, ZeroMetrics, buf, gi.data)
    ELSE read_with_offset(b, f, buf, gi.val,
                          get_glyph_bitmap_offset([f EXCEPT !.data = gi.data], gi.val))

\* 301-334.  buf is the caller's buffer.
read_glyph_raw(b, f, code_point, buf) ==
    read_with_index(b, f, buf, get_glyph_index(b, f, code_point))

(***************************************************************************)
(* The byte sources of the model: a well-formed container in each          *)
(* combination of padding, metrics encoding, ink bounds and table of       *)
(* contents, and the same containers with one or two defects.              *)
(***************************************************************************)
\* glyph 1: 3x2, glyph 2: 9x3 (two bytes a row), glyph 3: empty, advance 3,
\* glyph 4: 6x1, drawn from x = -1 and wider than its advance,
\* glyph 5: two rows of no width, glyph 6: 5 wide and no rows
BaseGlyphs ==
    << [m |-> Metrics(0, 3, 4, 2, 0, 0), rows |-> << <<160>>, <<64>> >>],
       [m |-> Metrics(1, 10, 11, 2, 1, 0), rows |-> << <<255, 128>>, <<129, 0>>, <<255, 128>> >>],
       [m |-> Metrics(0, 0, 3, 0, 0, 0), rows |-> << >>],
       [m |-> Metrics(-1, 5, 3, 1, 0, 0), rows |-> << <<252>> >>],
       [m |-> Metrics(2, 2, 1, 1, 1, 0), rows |-> << <<>>, <<>> >>],
       [m |-> Metrics(0, 5, 6, 0, 0, 0), rows |-> << >>] >>

\* code points 0x0001..0x0003 and 0x0101..0x0103; 0x0003 and 0x0102 have no glyph
BaseEnc ==
    [min2 |-> 1, max2 |-> 3, min1 |-> 0, max1 |-> 1, def |-> 2,
     idx |-> <<0, 1, 65535, 2, 65535, 3>>]

BaseAcc ==
    [ascent |-> 2, descent |-> 1, overlap |-> 0,
     minb |-> Metrics(-1, 0, 3, 0, 0, 0), maxb |-> Metrics(1, 10, 11, 2, 1, 0),
     inkmin |-> Metrics(0, 1, 3, 1, 0, 0), inkmax |-> Metrics(1, 9, 11, 2, 2, 0)]

\* a font with one glyph of 9x21, which takes 42 bytes in rows of whole
\* bytes, in place of glyph 2; its accelerator bounds cover it
TallGlyphs ==
    [BaseGlyphs EXCEPT ![2] = [m |-> Metrics(0, 9, 10, 20, 1, 0),
                               rows |-> [i \in 1 .. 21 |-> <<255, 128>>]]]

TallAcc ==
    [BaseAcc EXCEPT !.maxb = Metrics(2, 10, 10, 20, 1, 0),
                    !.inkmax = Metrics(2, 9, 10, 20, 2, 0)]

\* a font whose glyph 5 has the metrics 1, 2, 3, 4, 5 (compressed: the bytes
\* 0x81 .. 0x85): 1 wide and 9 high; its accelerator bounds cover it
ExampleGlyphs ==
    [BaseGlyphs EXCEPT ![5] = [m |-> Metrics(1, 2, 3, 4, 5, 0),
                               rows |-> [i \in 1 .. 9 |-> <<128>>]]]

ExampleAcc ==
    [BaseAcc EXCEPT !.maxb = Metrics(2, 10, 11, 4, 5, 0),
                    !.inkmax = Metrics(2, 9, 11, 4, 5, 0)]

\* the plain accelerators table, told apart from the BDF one by its contents
PlainAcc ==
    [ascent |-> 3, descent |-> 2, overlap |-> 0,
     minb |-> Metrics(0, 0, 2, 0, 0, 0), maxb |-> Metrics(2, 12, 12, 3, 2, 0),
     inkmin |-> Metrics(0, 2, 2, 1, 0, 0), inkmax |-> Metrics(2, 11, 12, 3, 3, 0)]

Tocs ==
    { <<TT_Bitmaps, TT_Metrics, TT_BdfEncodings, TT_BdfAccelerators>>,
      <<TT_Properties, TT_Accelerators, TT_Metrics, TT_Bitmaps, TT_BdfEncodings>>,
      <<TT_BdfAccelerators, TT_Accelerators, TT_BdfEncodings, TT_Bitmaps, TT_Metrics>> }

MsbFlags == PCF_BYTE_MASK + PCF_BIT_MASK

Base(pad, comp, ink, toc) ==
    [magic |-> PCF_MAGIC, table_count |-> Len(toc), toc |-> toc,
     fmtB |-> MsbFlags + pad,
     fmtM |-> MsbFlags + (IF comp THEN PCF_COMPRESSED_METRICS ELSE 0),
     fmtE |-> MsbFlags,
     fmtA |-> MsbFlags + (IF ink THEN PCF_ACCEL_W_INKBOUNDS ELSE 0),
     fmtP |-> MsbFlags + (IF ink THEN PCF_ACCEL_W_INKBOUNDS ELSE 0),
     glyph_count |-> Len(BaseGlyphs), metrics_count |-> Len(BaseGlyphs),
     offsets |-> <<>>, glyphs |-> BaseGlyphs, enc |-> BaseEnc,
     acc |-> BaseAcc, accPlain |-> PlainAcc, keep |-> 100000, defect |-> "none", start |-> 0]

Bases == { Base(pad, comp, ink, toc) :
              pad \in 0 .. 2, comp \in BOOLEAN, ink \in BOOLEAN, toc \in Tocs }

\* the container of r without table records of kind k
Without(r, k) ==
    LET t == SelectSeq(r.toc, LAMBDA x : x # k)
    IN  [r EXCEPT !.toc = t, !.table_count = Len(t), !.defect = "missing"]

RequiredKinds == {TT_Bitmaps, TT_Metrics, TT_BdfEncodings, TT_BdfAccelerators, TT_Accelerators}

\* r with the format of table kind k replaced by f
WithFormat(r, k, f) ==
    CASE k = TT_Bitmaps -> [r EXCEPT !.fmtB = f]
      [] k = TT_Metrics -> [r EXCEPT !.fmtM = f]
      [] k = TT_BdfEncodings -> [r EXCEPT !.fmtE = f]
      [] k = TT_BdfAccelerators -> [r EXCEPT !.fmtA = f]
      [] k = TT_Accelerators -> [r EXCEPT !.fmtP = f]
      [] OTHER -> r

\* r with the flag bits `bits` cleared in the format of table kind k
ClearFlags(r, k, bits) ==
    [WithFormat(r, k, TableFormat(r, k) - BitAnd(TableFormat(r, k), bits))
        EXCEPT !.defect = IF r.defect = "none" THEN "flags" ELSE @]

Flawed(r) ==
    \* a wrong signature
    { [r EXCEPT !.magic = m, !.defect = "magic"] :
        m \in { <<0, 102, 99, 112>>, <<1, 102, 99, 113>>, <<112, 99, 102, 1>>, <<1, 102, 98, 112>> } }
    \* a required table missing, alone or with the flags of another table cleared
    \cup { Without(r, k) : k \in RequiredKinds }
    \cup { Without(Without(r, TT_Accelerators), TT_BdfAccelerators) }
    \cup { ClearFlags(Without(r, q[1]), q[2], PCF_BYTE_MASK) :
             q \in { x \in {TT_Bitmaps, TT_Metrics, TT_BdfEncodings}
                                \X {TT_Bitmaps, TT_Metrics, TT_BdfEncodings} : x[1] # x[2] } }
    \* byte or bit order flags cleared
    \cup { ClearFlags(r, k, bits) : k \in RequiredKinds,
             bits \in {PCF_BYTE_MASK, PCF_BIT_MASK, MsbFlags} }
    \* scan unit, reserved padding
    \cup { [r EXCEPT !.fmtB = @ + 16 * u, !.defect = "scan"] : u \in 1 .. 3 }
    \cup { [r EXCEPT !.fmtB = MsbFlags + 3, !.defect = "pad"] }
    \cup { [r EXCEPT !.fmtB = MsbFlags + 3 + 16, !.defect = "scan"] }
    \* metrics count differing from the glyph count
    \cup { [r EXCEPT !.metrics_count = c, !.defect = "count"] : c \in {0, 5, 7, 260} }
    \cup { [r EXCEPT !.glyph_count = c, !.defect = "count"] : c \in {5, 7, 1000} }
    \* a table count larger (or smaller) than the records present
    \cup { [r EXCEPT !.table_count = Len(r.toc) + d, !.defect = "tablecount"] : d \in {1, 40} }
    \* accelerator bounds whose bounding box leaves the i16 range
    \cup { [r EXCEPT !.acc.maxb.right_side_bearing = 32767,
                     !.acc.inkmax.right_side_bearing = 32767,
                     !.accPlain.maxb.right_side_bearing = 32767,
                     !.accPlain.inkmax.right_side_bearing = 32767, !.defect = "bounds"] }
    \cup { [r EXCEPT !.acc.maxb.character_descent = -32768,
                     !.acc.inkmax.character_descent = -32768,
                     !.accPlain.maxb.character_descent = -32768,
                     !.accPlain.inkmax.character_descent = -32768, !.defect = "bounds"] }

\* encoding domains other than the base one: a single row, a row of 256
\* columns, and a domain whose column span does not fit in 16 bits
Domains(r) ==
    { [r EXCEPT !.enc = [BaseEnc EXCEPT !.max1 = 0, !.idx = <<1, 65535, 0>>],
                !.defect = "domain"],
      [r EXCEPT !.enc = [BaseEnc EXCEPT !.min2 = 0, !.max2 = 255, !.min1 = 1, !.max1 = 1,
                                        !.idx = <<3, 4, 65535, 5, 1>>],
                !.defect = "domain"],
      [r EXCEPT !.enc = [BaseEnc EXCEPT !.min2 = 0, !.max2 = 65535], !.defect = "domain"] }

\* the container of r with the tall glyph
Tall(r) ==
    [r EXCEPT !.glyphs = TallGlyphs, !.acc = TallAcc, !.accPlain = TallAcc, !.defect = "tall"]

\* the container of r with the example glyph
Example(r) ==
    [r EXCEPT !.glyphs = ExampleGlyphs, !.acc = ExampleAcc, !.accPlain = ExampleAcc,
              !.defect = "example"]

FullLen(r) == Len(Container([r EXCEPT !.keep = 100000]))

\* r cut after every TruncStep-th byte
Truncated(r) ==
    { [r EXCEPT !.keep = n * TruncStep, !.defect = "cut"] : n \in 0 .. (FullLen(r) \div TruncStep) }

\* the bases that are also cut short
CutBases == { r \in Bases : r.fmtB = MsbFlags + 2 /\ r.fmtA # MsbFlags }

Recipes ==
    Bases \cup UNION { Flawed(r) : r \in Bases } \cup UNION { Truncated(r) : r \in CutBases }
        \cup UNION { Domains(r) : r \in Bases }

\* where the cursor of the source stands when load_pcf_font is called
StartPositions == {0, 6, Far}

\* what the last call on the handle returned
OutOf(op, code_point, tag, err, val, length, width, m, buf) ==
    [op |-> op, code_point |-> code_point, tag |-> tag, err |-> err, val |-> val,
     length |-> length, width |-> width, metrics |-> m, buf |-> buf]

NoOut == OutOf("none", 0, "None", "", 0, 0, 0, ZeroMetrics, <<>>)

\* the buffer draw_string_binary hands to read_glyph_raw (style.rs 209)
GlyphBufLen == 40

\* the code points asked of a handle, and the buffers handed to read_glyph_raw
\* (the one of style.rs, one too short for the largest glyph, and one of
\* max_bytes_per_glyph() bytes), filled with 0xAA
CodePoints == { hi * 256 + lo : hi \in 0 .. 2, lo \in 0 .. MaxCodeLow }

BufLens == {4, GlyphBufLen}

FreshBuf(n) == [i \in 1 .. n |-> 170]

NoDraw == [pc |-> "idle"]

NoRace == [mode |-> "none"]

NoCalc == [op |-> "idle"]

\* the scenario is about a font that is already open: no container is loaded
NoRecipe == [defect |-> "no container"]

\* the containers whose handles are asked for glyphs
LookupRecipes ==
    LET plain == { r \in Bases : r.toc[1] = TT_Bitmaps /\ r.fmtA = MsbFlags }
        wide == { r \in plain : r.fmtB = MsbFlags }
        cut == { r \in Bases : r.toc[1] = TT_BdfAccelerators /\ r.fmtA = MsbFlags
                                  /\ r.fmtB = MsbFlags + 1 /\ r.fmtM # MsbFlags }
    IN  plain \cup UNION { Domains(r) : r \in wide } \cup UNION { Truncated(r) : r \in cut }
            \cup { Tall(r) : r \in wide } \cup { Example(r) : r \in wide }

\* every container with its cursor at 0; the well-formed ones and the ones
\* with a wrong signature also with the cursor elsewhere
Init ==
    /\ \E r \in Recipes, p \in StartPositions :
         /\ p = 0 \/ r.defect \in {"none", "magic"}
         /\ rcp = [r EXCEPT !.start = p]
    /\ ld = LoadEntry(Source(Container(rcp), rcp.start))
    /\ font = NoFont
    /\ out = NoOut
    /\ lk = NoRace
    /\ calc = NoCalc
    /\ dr = NoDraw

(***************************************************************************)
(* load_pcf_font, stage by stage.                                          *)
(***************************************************************************)
LoadMagic ==
    /\ ld.pc = "magic"
    /\ ld' = step_magic(ld)
    /\ UNCHANGED <<rcp, font, out, dr, lk, calc>>

LoadTocCount ==
    /\ ld.pc = "toc_count"
    /\ ld' = step_toc_count(ld)
    /\ UNCHANGED <<rcp, font, out, dr, lk, calc>>

LoadTocEntry ==
    /\ ld.pc = "toc_entry"
    /\ ld' = step_toc_entry(ld)
    /\ UNCHANGED <<rcp, font, out, dr, lk, calc>>

LoadVerify ==
    /\ ld.pc = "verify"
    /\ ld' = step_verify(ld)
    /\ UNCHANGED <<rcp, font, out, dr, lk, calc>>

LoadBitmaps ==
    /\ ld.pc = "bitmaps"
    /\ ld' = step_bitmaps(ld)
    /\ UNCHANGED <<rcp, font, out, dr, lk, calc>>

LoadMetrics ==
    /\ ld.pc = "metrics"
    /\ ld' = step_metrics(ld)
    /\ UNCHANGED <<rcp, font, out, dr, lk, calc>>

LoadEncodings ==
    /\ ld.pc = "encodings"
    /\ ld' = step_encodings(ld)
    /\ UNCHANGED <<rcp, font, out, dr, lk, calc>>

LoadAccel ==
    /\ ld.pc = "accel"
    /\ \E b \in Builds : ld' = step_accel(b, ld)
    /\ UNCHANGED <<rcp, font, out, dr, lk, calc>>

\* Ok(PcfFont { data, .. }): the source moves into the handle
LoadFinish ==
    /\ ld.pc = "finish"
    /\ ld' = step_finish(ld)
    /\ font' = handle_of(ld)
    /\ UNCHANGED <<rcp, out, dr, lk, calc>>

Load ==
    \/ LoadMagic \/ LoadTocCount \/ LoadTocEntry \/ LoadVerify \/ LoadBitmaps
    \/ LoadMetrics \/ LoadEncodings \/ LoadAccel \/ LoadFinish

(***************************************************************************)
\* the code points given to override_default_char
DefaultChars == {0, 2, 65}

\* font.override_default_char(value), once on a handle
OverrideDefaultChar ==
    /\ font # NoFont /\ out = NoOut
    /\ \E value \in DefaultChars :
         /\ font' = override_default_char(font, value)
         /\ out' = OutOf("override_default_char", value, "Ok", "", value, 0, 0, ZeroMetrics, <<>>)
    /\ UNCHANGED <<rcp, ld, dr, lk, calc>>

Next == Load \/ OverrideDefaultChar

Spec == Init /\ [][Next]_vars

(***************************************************************************)
(* Calls on the opened handle.  A panic ends the program.                  *)
(***************************************************************************)
Alive == font # NoFont /\ out.tag \notin {"Panic", "Hang"}

GetGlyphIndex ==
    /\ Alive
    /\ \E cp \in CodePoints, b \in Builds :
         LET r == get_glyph_index(b, font, cp)
         IN  /\ out' = OutOf("get_glyph_index", cp, r.tag, r.err, r.val, 0, 0, ZeroMetrics, <<>>)
             /\ font' = [font EXCEPT !.data = r.data]
    /\ UNCHANGED <<rcp, ld, dr, lk, calc>>

ReadGlyphRaw ==
    /\ Alive
    /\ \E cp \in CodePoints, b \in Builds :
       \E n \in BufLens \cup {max_bytes_per_glyph(b, font).v} :
         LET r == read_glyph_raw(b, font, cp, FreshBuf(n))
         IN  /\ out' = OutOf("read_glyph_raw", cp, r.tag, r.err, 0, r.length, r.width,
                             r.metrics, r.buf)
             /\ font' = [font EXCEPT !.data = r.data]
    /\ UNCHANGED <<rcp, ld, dr, lk, calc>>

\* font.max_bytes_per_glyph(): the handle is only read
MaxBytesPerGlyph ==
    /\ Alive
    /\ \E b \in Builds :
         LET r == max_bytes_per_glyph(b, font)
         IN  out' = OutOf("max_bytes_per_glyph", 0, IF r.panic THEN "Panic" ELSE "Ok", "",
                          IF r.huge THEN Far ELSE r.v, 0, 0, ZeroMetrics, <<>>)
    /\ UNCHANGED <<rcp, ld, font, dr, lk, calc>>

\* self.get_metrics(glyph_index), as read_glyph_raw calls it (308)
GetMetrics ==
    /\ Alive
    /\ \E glyph_index \in 0 .. MaxGlyphIndex :
         LET r == get_metrics(font, glyph_index)
         IN  /\ out' = OutOf("get_metrics", 0, r.tag, r.err, glyph_index, 0, 0, r.val, <<>>)
             /\ font' = [font EXCEPT !.data = r.data]
    /\ UNCHANGED <<rcp, ld, dr, lk, calc>>

NextLookup == Load \/ GetGlyphIndex \/ ReadGlyphRaw \/ MaxBytesPerGlyph \/ GetMetrics

InitLookup ==
    /\ rcp \in LookupRecipes
    /\ ld = LoadEntry(Source(Container(rcp), 0))
    /\ font = NoFont
    /\ out = NoOut
    /\ lk = NoRace
    /\ calc = NoCalc
    /\ dr = NoDraw

SpecLookup == InitLookup /\ [][NextLookup]_vars

(***************************************************************************)
(* Two glyph lookups at once.  Each is the get_glyph_index and the         *)
(* get_glyph_bitmap_offset of read_glyph_raw (306-307), a step per call on *)
(* the byte source.  The byte source of a lookup is its own clone of the   *)
(* font's (mode "own": the same bytes, a cursor of its own) or the one     *)
(* cursor both lookups use (mode "shared").                                *)
(***************************************************************************)
LookupResult(tag, err, index, offset) ==
    [tag |-> tag, err |-> err, index |-> index, offset |-> offset]

\* a lookup before its first step: seeks and reads are the positions it
\* asked for and the positions its reads started at
NewLookup(code_point, data) ==
    [pc |-> "index_seek", code_point |-> code_point, data |-> data, index |-> 0,
     res |-> LookupResult("None", "", 0, 0), seeks |-> <<>>, reads |-> <<>>]

\* the one cursor, whatever the mode
cursor_shared(l, i) == l.shared

\* self.data of lookup i
cursor(l, i) == IF l.mode = "own" THEN l.t[i].data ELSE l.shared

with_cursor(l, i, src) ==
    IF l.mode = "own" THEN [l EXCEPT !.t[i].data = src] ELSE [l EXCEPT !.shared = src]

\* return of lookup i
lookup_return(l, i, tag, err, index, offset) ==
    [l EXCEPT !.t[i].pc = "done", !.t[i].res = LookupResult(tag, err, index, offset)]

\* self.data.seek(SeekFrom::Start(pos))
lookup_seek(l, i, pos, pc) ==
    [with_cursor(l, i, SeekStart(cursor(l, i), pos))
        EXCEPT !.t[i].pc = pc, !.t[i].seeks = Append(@, pos)]

\* self.data.read_exact(buffer) of n bytes: the cursor moves on
lookup_read(l, i, n) ==
    [with_cursor(l, i, ReadAdvance(cursor(l, i), n))
        EXCEPT !.t[i].reads = Append(@, cursor(l, i).pos)]

\* 337-352: the domain test, the position of the entry, the seek
get_glyph_index_seek(b, f, l, i) ==
    IF ~(f.min_byte1 <= (l.t[i].code_point \div 256) % 256
            /\ (l.t[i].code_point \div 256) % 256 <= f.max_byte1)
       \/ ~(f.min_char_or_byte2 <= l.t[i].code_point % 256
            /\ l.t[i].code_point % 256 <= f.max_char_or_byte2)
    THEN lookup_return(l, i, "Err", "NotFound", 0, 0)
    ELSE IF indice_offset_of(b, f, (l.t[i].code_point \div 256) % 256,
                             l.t[i].code_point % 256).panic
         THEN lookup_return(l, i, "Panic", "", 0, 0)
    ELSE lookup_seek(l, i,
             PosAdd(f.encoded_glyph_indices_location,
                    indice_offset_of(b, f, (l.t[i].code_point \div 256) % 256,
                                     l.t[i].code_point % 256).v * 2),
             "index_read")

\* 353-361: the read of the entry and its decoding
get_glyph_index_read(l, i) ==
    IF ~ReadOk(cursor(l, i), 2) THEN lookup_return(lookup_read(l, i, 2), i, "Err", "Io", 0, 0)
    ELSE IF u16_from_be_bytes_ref(ReadBuf(cursor(l, i), 2)) = 65535
         THEN lookup_return(lookup_read(l, i, 2), i, "Err", "NotFound", 0, 0)
    ELSE [lookup_read(l, i, 2) EXCEPT !.t[i].pc = "offset_seek",
                                      !.t[i].index = u16_from_be_bytes_ref(ReadBuf(cursor(l, i), 2))]

\* 367-369
get_glyph_bitmap_offset_seek(f, l, i) ==
    lookup_seek(l, i, PosAdd(f.bitmap_position_lut_location, l.t[i].index * 4), "offset_read")

\* 370-371
get_glyph_bitmap_offset_read(l, i) ==
    IF ~ReadOk(cursor(l, i), 4) THEN lookup_return(lookup_read(l, i, 4), i, "Err", "Io", 0, 0)
    ELSE lookup_return(lookup_read(l, i, 4), i, "Ok", "", l.t[i].index,
                       u32_from_be_bytes_ref(ReadBuf(cursor(l, i), 4)))

RaceModes == {"own", "shared"}

\* the fonts looked up in: byte padded, with each metrics encoding, and the
\* same with the other encoding domains
RaceRecipes ==
    LET wide == { r \in Bases : r.toc[1] = TT_Bitmaps /\ r.fmtA = MsbFlags /\ r.fmtB = MsbFlags }
    IN  wide \cup UNION { Domains(r) : r \in wide }

\* two lookups begin on the opened font: each byte source starts as the
\* font's, at the position the font's cursor is at
StartLookups ==
    /\ font # NoFont /\ lk = NoRace
    /\ \E mode \in RaceModes, b \in Builds, cp1 \in CodePoints, cp2 \in CodePoints :
         lk' = [mode |-> mode, build |-> b, shared |-> font.data,
                t |-> <<NewLookup(cp1, font.data), NewLookup(cp2, font.data)>>]
    /\ UNCHANGED <<rcp, ld, font, out, dr, calc>>

IndexSeek ==
    /\ lk # NoRace
    /\ \E i \in 1 .. 2 :
         /\ lk.t[i].pc = "index_seek"
         /\ lk' = get_glyph_index_seek(lk.build, font, lk, i)
    /\ UNCHANGED <<rcp, ld, font, out, dr, calc>>

IndexRead ==
    /\ lk # NoRace
    /\ \E i \in 1 .. 2 :
         /\ lk.t[i].pc = "index_read"
         /\ lk' = get_glyph_index_read(lk, i)
    /\ UNCHANGED <<rcp, ld, font, out, dr, calc>>

OffsetSeek ==
    /\ lk # NoRace
    /\ \E i \in 1 .. 2 :
         /\ lk.t[i].pc = "offset_seek"
         /\ lk' = get_glyph_bitmap_offset_seek(font, lk, i)
    /\ UNCHANGED <<rcp, ld, font, out, dr, calc>>

OffsetRead ==
    /\ lk # NoRace
    /\ \E i \in 1 .. 2 :
         /\ lk.t[i].pc = "offset_read"
         /\ lk' = get_glyph_bitmap_offset_read(lk, i)
    /\ UNCHANGED <<rcp, ld, font, out, dr, calc>>

NextRace == Load \/ StartLookups \/ IndexSeek \/ IndexRead \/ OffsetSeek \/ OffsetRead

InitRace ==
    /\ rcp \in RaceRecipes
    /\ ld = LoadEntry(Source(Container(rcp), 0))
    /\ font = NoFont
    /\ out = NoOut
    /\ dr = NoDraw
    /\ lk = NoRace
    /\ calc = NoCalc

SpecRace == InitRace /\ [][NextRace]_vars

(***************************************************************************)
(* Sequences of lookups on one handle.  calc counts the calls made and     *)
(* keeps where the cursor stood when the last one began, what the call     *)
(* before it returned, and the build.                                      *)
(***************************************************************************)
\* the number of calls made on a handle
MaxLookups == 3

\* the containers looked up in: the three paddings, both metrics encodings,
\* and the ones cut short; the buffer is the one of style.rs
CursorRecipes == { r \in LookupRecipes : r.defect \in {"none", "cut"} }

Tracked(n, from, prev, b) == [op |-> "cursor", n |-> n, from |-> from, prev |-> prev, build |-> b]

CursorGetGlyphIndex ==
    /\ Alive /\ calc.n < MaxLookups
    /\ \E cp \in CodePoints, b \in Builds :
         LET r == get_glyph_index(b, font, cp)
         IN  /\ out' = OutOf("get_glyph_index", cp, r.tag, r.err, r.val, 0, 0, ZeroMetrics, <<>>)
             /\ font' = [font EXCEPT !.data = r.data]
             /\ calc' = Tracked(calc.n + 1, font.data.pos, out.tag, b)
    /\ UNCHANGED <<rcp, ld, dr, lk>>

CursorGetMetrics ==
    /\ Alive /\ calc.n < MaxLookups
    /\ \E glyph_index \in 0 .. MaxGlyphIndex :
         LET r == get_metrics(font, glyph_index)
         IN  /\ out' = OutOf("get_metrics", 0, r.tag, r.err, glyph_index, 0, 0, r.val, <<>>)
             /\ font' = [font EXCEPT !.data = r.data]
             /\ calc' = Tracked(calc.n + 1, font.data.pos, out.tag, calc.build)
    /\ UNCHANGED <<rcp, ld, dr, lk>>

CursorReadGlyphRaw ==
    /\ Alive /\ calc.n < MaxLookups
    /\ \E cp \in CodePoints, b \in Builds :
         LET r == read_glyph_raw(b, font, cp, FreshBuf(GlyphBufLen))
         IN  /\ out' = OutOf("read_glyph_raw", cp, r.tag, r.err, 0, r.length, r.width,
                             r.metrics, r.buf)
             /\ font' = [font EXCEPT !.data = r.data]
             /\ calc' = Tracked(calc.n + 1, font.data.pos, out.tag, b)
    /\ UNCHANGED <<rcp, ld, dr, lk>>

NextCursor == Load \/ CursorGetGlyphIndex \/ CursorGetMetrics \/ CursorReadGlyphRaw

InitCursor ==
    /\ rcp \in CursorRecipes
    /\ ld = LoadEntry(Source(Container(rcp), 0))
    /\ font = NoFont
    /\ out = NoOut
    /\ dr = NoDraw
    /\ lk = NoRace
    /\ calc = Tracked(0, 0, "None", "debug")

SpecCursor == InitCursor /\ [][NextCursor]_vars

(***************************************************************************)
(* The pure functions, called on their own: bytes_per_row on a usize and   *)
(* the byte codec of utils.rs on arrays of 4 and 2 bytes.                  *)
(***************************************************************************)
\* widths 0 .. MaxWidth, and the TopWidths largest values of a usize
MaxWidth == 40
TopWidths == 40

\* a usize width is held as row_bytes_usize takes it: w >= 0 is w, and
\* w < 0 is 2^64 + w
Widths == (-TopWidths) .. MaxWidth

Aligns == {1, 2, 4}

\* the bytes the arrays are made of, and the two arrays of the tests of
\* utils.rs (63-77)
SampleBytes == {0, 1, 127, 128, 255}

ByteArrays ==
    { <<a, b, c, d>> : a \in SampleBytes, b \in SampleBytes, c \in SampleBytes, d \in SampleBytes }
        \cup { <<12, 78, 2, 0>>, <<0, 18, 117, 39>> }

Called(op, width, align, bytes, res) ==
    [op |-> op, width |-> width, align |-> align, bytes |-> bytes, res |-> res]

InitCalc ==
    /\ rcp = NoRecipe
    /\ ld = [pc |-> "idle"]
    /\ font = NoFont
    /\ out = NoOut
    /\ dr = NoDraw
    /\ lk = NoRace
    /\ \/ \E w \in Widths, a \in Aligns : calc = Called("row", w, a, <<>>, 0)
       \/ \E bs \in ByteArrays : calc = Called("bytes", 0, 0, bs, 0)

BytesPerRow ==
    /\ calc.op = "row"
    /\ \E b \in Builds :
         calc' = [calc EXCEPT !.op = "bytes_per_row",
                              !.res = row_bytes_usize(b, calc.width, calc.align)]
    /\ UNCHANGED <<rcp, ld, font, out, dr, lk>>

U32FromLe ==
    /\ calc.op = "bytes"
    /\ calc' = [calc EXCEPT !.op = "u32_from_le_bytes_ref", !.res = u32_from_le_bytes_ref(calc.bytes)]
    /\ UNCHANGED <<rcp, ld, font, out, dr, lk>>

I32FromLe ==
    /\ calc.op = "bytes"
    /\ calc' = [calc EXCEPT !.op = "i32_from_le_bytes_ref", !.res = i32_from_le_bytes_ref(calc.bytes)]
    /\ UNCHANGED <<rcp, ld, font, out, dr, lk>>

U32FromBe ==
    /\ calc.op = "bytes"
    /\ calc' = [calc EXCEPT !.op = "u32_from_be_bytes_ref", !.res = u32_from_be_bytes_ref(calc.bytes)]
    /\ UNCHANGED <<rcp, ld, font, out, dr, lk>>

I32FromBe ==
    /\ calc.op = "bytes"
    /\ calc' = [calc EXCEPT !.op = "i32_from_be_bytes_ref", !.res = i32_from_be_bytes_ref(calc.bytes)]
    /\ UNCHANGED <<rcp, ld, font, out, dr, lk>>

\* the 16-bit functions are given the first two bytes of the array
U16FromLe ==
    /\ calc.op = "bytes"
    /\ calc' = [calc EXCEPT !.op = "u16_from_le_bytes_ref",
                            !.bytes = SubSeq(calc.bytes, 1, 2),
                            !.res = u16_from_le_bytes_ref(SubSeq(calc.bytes, 1, 2))]
    /\ UNCHANGED <<rcp, ld, font, out, dr, lk>>

I16FromLe ==
    /\ calc.op = "bytes"
    /\ calc' = [calc EXCEPT !.op = "i16_from_le_bytes_ref",
                            !.bytes = SubSeq(calc.bytes, 1, 2),
                            !.res = i16_from_le_bytes_ref(SubSeq(calc.bytes, 1, 2))]
    /\ UNCHANGED <<rcp, ld, font, out, dr, lk>>

U16FromBe ==
    /\ calc.op = "bytes"
    /\ calc' = [calc EXCEPT !.op = "u16_from_be_bytes_ref",
                            !.bytes = SubSeq(calc.bytes, 1, 2),
                            !.res = u16_from_be_bytes_ref(SubSeq(calc.bytes, 1, 2))]
    /\ UNCHANGED <<rcp, ld, font, out, dr, lk>>

I16FromBe ==
    /\ calc.op = "bytes"
    /\ calc' = [calc EXCEPT !.op = "i16_from_be_bytes_ref",
                            !.bytes = SubSeq(calc.bytes, 1, 2),
                            !.res = i16_from_be_bytes_ref(SubSeq(calc.bytes, 1, 2))]
    /\ UNCHANGED <<rcp, ld, font, out, dr, lk>>

NextCalc ==
    \/ BytesPerRow
    \/ U32FromLe \/ I32FromLe \/ U32FromBe \/ I32FromBe
    \/ U16FromLe \/ I16FromLe \/ U16FromBe \/ I16FromBe

SpecCalc == InitCalc /\ [][NextCalc]_vars

(***************************************************************************)
(* The pixel surface (the DrawTarget the caller hands to draw_string): the *)
(* pixels written so far as a set of <<x, y, colour>>, the number of calls *)
(* it still accepts (-1: it never fails), whether it reported an error,    *)
(* and the number of calls made on it.                                     *)
(***************************************************************************)
Surface(left) == [px |-> {}, left |-> left, err |-> FALSE, calls |-> 0]

Pt(x, y) == [x |-> x, y |-> y]

Rect(x, y, w, h) == [x |-> x, y |-> y, w |-> w, h |-> h]

\* the last column and row of the surface that the model looks at
SurfaceEdge == 32

\* the points of a Rectangle.  Its sizes are u32, held as their 32-bit
\* pattern: a negative w or h is a size of 2^32 + w or 2^32 + h, a rectangle
\* that runs past every column or row the surface has; its points are taken
\* up to SurfaceEdge
RectPoints(r) ==
    { <<x, y>> : x \in r.x .. (IF r.w < 0 THEN SurfaceEdge ELSE r.x + r.w - 1),
                 y \in r.y .. (IF r.h < 0 THEN SurfaceEdge ELSE r.y + r.h - 1) }

\* one call on the surface that writes colour c at the points pts
SurfaceCall(s, pts, c) ==
    IF s.left = 0 THEN [s EXCEPT !.err = TRUE, !.calls = s.calls + 1]
    ELSE [px |-> { q \in s.px : <<q[1], q[2]>> \notin pts } \cup { <<q[1], q[2], c>> : q \in pts },
          left |-> IF s.left > 0 THEN s.left - 1 ELSE s.left,
          err |-> FALSE,
          calls |-> s.calls + 1]

(***************************************************************************)
(* draw_target.rs: MonoFontDrawTarget in its three modes.  colors is       *)
(* <<text>>, <<background>> or <<text, background>>.                       *)
(***************************************************************************)
\* fill_contiguous that draws the 'on' pixels in every mode
fill_contiguous_any_mode(mode, colors, s, on_points) == SurfaceCall(s, on_points, colors[1])

\* 23-36, 61-66, 91-105: the 'on' pixels of the image go to parent.draw_iter
\* in the text colour; the Background mode draws nothing
fill_contiguous(mode, colors, s, on_points) ==
    IF mode = "Background" THEN s ELSE SurfaceCall(s, on_points, colors[1])

\* 45-50, 75-80, 114-119
fill_solid(mode, colors, s, area, color) ==
    CASE mode = "Foreground" ->
           IF color = "On" THEN SurfaceCall(s, RectPoints(area), colors[1]) ELSE s
      [] mode = "Background" ->
           IF color = "On" THEN s ELSE SurfaceCall(s, RectPoints(area), colors[1])
      [] OTHER ->
           IF color = "On" THEN SurfaceCall(s, RectPoints(area), colors[1])
           ELSE SurfaceCall(s, RectPoints(area), colors[2])

(***************************************************************************)
(* The font as style.rs uses it (crate::parser): each code point of the    *)
(* font decodes to a glyph, is not found, fails on its index (Io) or has   *)
(* metrics but no readable bitmap (IoBitmap).                              *)
(***************************************************************************)
\* the bounding box of the handle: max_descent is minus the descent of
\* maxbounds, max_ascent is height + max_descent
parser_bounding_box(minb, maxb) ==
    [width |-> maxb.right_side_bearing - minb.left_side_bearing,
     height |-> maxb.character_ascent + maxb.character_descent,
     max_ascent |-> maxb.character_ascent,
     max_descent |-> -maxb.character_descent]

\* metrics.glyph_width()
glyph_width(m) == m.right_side_bearing - m.left_side_bearing

\* font.read_glyph_raw(cp, buf): Ok((length, metrics)) with the rows in
\* buf[..length], or Err
parser_read_glyph_raw(f, cp) ==
    LET g == f.chars[cp]
    IN  CASE g.kind = "glyph" ->
               [tag |-> "Ok", err |-> "", length |-> Len(Flatten(g.rows)), metrics |-> g.m,
                data |-> Flatten(g.rows)]
          [] g.kind = "NotFound" ->
               [tag |-> "Err", err |-> "NotFound", length |-> 0, metrics |-> g.m, data |-> <<>>]
          [] OTHER ->
               [tag |-> "Err", err |-> "Io", length |-> 0, metrics |-> g.m, data |-> <<>>]

\* font.get_glyph_metrics(cp)
parser_get_glyph_metrics(f, cp) ==
    LET g == f.chars[cp]
    IN  CASE g.kind \in {"glyph", "IoBitmap"} -> [tag |-> "Ok", err |-> "", metrics |-> g.m]
          [] g.kind = "NotFound" -> [tag |-> "Err", err |-> "NotFound", metrics |-> g.m]
          [] OTHER -> [tag |-> "Err", err |-> "Io", metrics |-> g.m]

(***************************************************************************)
(* style.rs.  st is the style: text_color and background_color ("None" or  *)
(* a colour), underline_color and strikethrough_color ([kind, c]), font.   *)
(***************************************************************************)
\* baseline_offset without the 1 that makes the lower edge the baseline
baseline_offset_upper_edge(st, baseline) ==
    CASE baseline = "Top" -> st.font.bounding_box.max_ascent
      [] baseline = "Bottom" -> st.font.bounding_box.max_descent
      [] baseline = "Middle" ->
           (st.font.bounding_box.height \div 2) + st.font.bounding_box.max_descent
      [] OTHER -> 0

\* 56-71
baseline_offset(st, baseline) ==
    CASE baseline = "Top" -> st.font.bounding_box.max_ascent
      [] baseline = "Bottom" -> 1 + st.font.bounding_box.max_descent
      [] baseline = "Middle" ->
           1 + (st.font.bounding_box.height \div 2) + st.font.bounding_box.max_descent
      [] OTHER -> 1

\* 89-93, 100-104: the colour of a decoration, "None" when it is not drawn
decoration_color(st, d) ==
    CASE d.kind = "Custom" -> d.c
      [] d.kind = "TextColor" -> st.text_color
      [] OTHER -> "None"

\* one decoration line: the surface after it
decoration_line(st, color, width, position, baseline, s) ==
    IF color = "None" THEN s
    ELSE SurfaceCall(s, RectPoints(Rect(position.x, position.y - baseline_offset(st, baseline),
                                        width, 1)), color)

\* 100-108: the underline, after the strikethrough went through
underline_after(st, width, position, s) ==
    IF s.err THEN s
    ELSE decoration_line(st, decoration_color(st, st.underline_color), width, position,
                         "Bottom", s)

\* draw_decorations with the two lines on each other's row
draw_decorations_swapped(st, width, position, s) ==
    IF decoration_line(st, decoration_color(st, st.strikethrough_color), width, position,
                       "Bottom", s).err
    THEN decoration_line(st, decoration_color(st, st.strikethrough_color), width, position,
                         "Bottom", s)
    ELSE decoration_line(st, decoration_color(st, st.underline_color), width, position, "Middle",
             decoration_line(st, decoration_color(st, st.strikethrough_color), width, position,
                             "Bottom", s))

\* 73-111
draw_decorations(st, width, position, s) ==
    underline_after(st, width, position,
        decoration_line(st, decoration_color(st, st.strikethrough_color), width, position,
                        "Middle", s))

\* the 'on' pixels of ImageRaw::<BinaryColor>::new(glyph_data, width) drawn
\* at (ox, oy): rows of ceil(width / 8) bytes, most significant bit first
OnPixels(glyph_data, width, ox, oy) ==
    IF width <= 0 THEN {}
    ELSE { <<ox + q[1], oy + q[2]>> :
             q \in { t \in (0 .. width - 1) \X (0 .. (Len(glyph_data) \div ((width + 7) \div 8)) - 1) :
                       (glyph_data[t[2] * ((width + 7) \div 8) + (t[1] \div 8) + 1]
                          \div Pow2(7 - (t[1] % 8))) % 2 = 1 } }

\* 115-138
draw_single_char_binary(mode, colors, s, glyph_data, metrics, position) ==
    IF Len(glyph_data) > 0
    THEN fill_contiguous(mode, colors, s,
             OnPixels(glyph_data, glyph_width(metrics),
                      position.x + metrics.left_side_bearing,
                      position.y - metrics.character_ascent))
    ELSE s

\* 148, 154-155: the width one character adds to the sum, as u32.  The cast
\* keeps the 32-bit pattern: a negative i16 is the u32 2^32 + v, held as v
char_width_u32(f, cp) ==
    IF parser_get_glyph_metrics(f, cp).tag = "Ok"
    THEN parser_get_glyph_metrics(f, cp).metrics.character_width
    ELSE f.bounding_box.width

\* a + x in u32, both held as their 32-bit patterns, leaves 2^32 behind when
\* both are 2^31 or more, or when one is and the patterns add up to 0 or more
u32_add_overflows(a, x) ==
    \/ a < 0 /\ x < 0
    \/ a < 0 /\ x >= 0 /\ a + x >= 0
    \/ a >= 0 /\ x < 0 /\ a + x >= 0

\* 157: .sum() over the rest of the text, acc being the sum so far: an
\* overflow panics where overflow is checked, and wraps otherwise
RECURSIVE text_width_sum(_, _, _, _)
text_width_sum(b, f, text, acc) ==
    IF text = <<>> THEN [panic |-> FALSE, v |-> acc]
    ELSE IF b = "debug" /\ u32_add_overflows(acc, char_width_u32(f, Head(text)))
         THEN [panic |-> TRUE, v |-> 0]
    ELSE text_width_sum(b, f, Tail(text), acc + char_width_u32(f, Head(text)))

\* 148-157: the width of the text as u32 (its 32-bit pattern), the bounding
\* box width standing in for a character without metrics: [panic, v]
text_width(b, f, text) == text_width_sum(b, f, text, 0)

NoRect == [none |-> TRUE]

\* the call panicked before it had a rectangle
PanicRect == [panic |-> TRUE]

\* text_bbox without the test for the empty text
text_bbox_any_text(b, st, text, position) ==
    IF text_width(b, st.font, text).panic THEN PanicRect
    ELSE Rect(position.x, position.y - st.font.bounding_box.max_ascent,
              text_width(b, st.font, text).v, st.font.bounding_box.height)

\* 142-162
text_bbox(b, st, text, position) ==
    IF Len(text) = 0 THEN NoRect
    ELSE IF text_width(b, st.font, text).panic THEN PanicRect
    ELSE Rect(position.x, position.y - st.font.bounding_box.max_ascent,
              text_width(b, st.font, text).v, st.font.bounding_box.height)

\* 168-186
fill_string_background(b, st, mode, colors, text, position, s) ==
    IF st.background_color # "None" /\ text_bbox(b, st, text, position) \notin {NoRect, PanicRect}
    THEN fill_solid(mode, colors, s, text_bbox(b, st, text, position), "Off")
    ELSE s

\* the state of the character loop: the pen and the surface
Pen(position, s) == [position |-> position, s |-> s, panic |-> FALSE]

\* the call panicked with the pen at position and the surface as s
PanicPen(position, s) == [position |-> position, s |-> s, panic |-> TRUE]

\* Point + Size::new(width, 0), width a u32 pattern: the cast to i32 keeps the
\* pattern, and a negative one fails the debug assertion of the addition
point_add_width(b, position, width, s) ==
    IF width < 0 /\ b = "debug" THEN PanicPen(position, s)
    ELSE Pen(Pt(position.x + width, position.y), s)

\* 205-208, 217-220: a decoded glyph is drawn and moves the pen, unless the
\* surface refuses it
char_drawn(mode, colors, pen, g) ==
    Pen(Pt(pen.position.x + g.metrics.character_width, pen.position.y),
        draw_single_char_binary(mode, colors, pen.s, g.data, g.metrics, pen.position))

\* 210-226: the character was not found, the default character is tried
char_default(st, mode, colors, pen, g) ==
    IF g.tag = "Ok" THEN char_drawn(mode, colors, pen, g) ELSE pen

\* 203-232: one character
char_step(st, mode, colors, pen, g) ==
    CASE g.tag = "Ok" -> char_drawn(mode, colors, pen, g)
      [] g.tag = "Err" /\ g.err = "NotFound" ->
           char_default(st, mode, colors, pen, parser_read_glyph_raw(st.font, st.font.default_char))
      [] OTHER -> pen

\* 203-234: the loop; an error of the surface ends it
RECURSIVE char_loop(_, _, _, _, _)
char_loop(st, mode, colors, text, pen) ==
    IF text = <<>> \/ pen.s.err THEN pen
    ELSE char_loop(st, mode, colors, Tail(text),
                   char_step(st, mode, colors, pen, parser_read_glyph_raw(st.font, Head(text))))

\* 192-237: the next position and the surface; s.err says the call returned
\* Err, panic that the sum of the background box overflowed
draw_string_binary(b, st, mode, colors, text, position, s) ==
    IF st.background_color # "None" /\ text_bbox(b, st, text, position) = PanicRect
    THEN PanicPen(position, s)
    ELSE char_loop(st, mode, colors, text,
                   Pen(position, fill_string_background(b, st, mode, colors, text, position, s)))

\* 260-288: the match on the two colours
draw_string_colors(b, st, text, position, s) ==
    CASE st.text_color # "None" /\ st.background_color # "None" ->
           draw_string_binary(b, st, "Both", <<st.text_color, st.background_color>>, text,
                              position, s)
      [] st.text_color # "None" /\ st.background_color = "None" ->
           draw_string_binary(b, st, "Foreground", <<st.text_color>>, text, position, s)
      [] st.text_color = "None" /\ st.background_color # "None" ->
           draw_string_binary(b, st, "Background", <<st.background_color>>, text, position, s)
      [] OTHER ->
           IF text_width(b, st.font, text).panic THEN PanicPen(position, s)
           ELSE point_add_width(b, position, text_width(b, st.font, text).v, s)

\* 290-296: the decorations and the returned point
draw_string_finish(st, position, off, nxt) ==
    IF nxt.panic THEN [tag |-> "Panic", point |-> Pt(0, 0), s |-> nxt.s]
    ELSE IF nxt.s.err THEN [tag |-> "Err", point |-> Pt(0, 0), s |-> nxt.s]
    ELSE IF nxt.position.x > position.x
         THEN [tag |-> IF draw_decorations(st, nxt.position.x - position.x, position, nxt.s).err
                       THEN "Err" ELSE "Ok",
               point |-> Pt(nxt.position.x, nxt.position.y - off),
               s |-> draw_decorations(st, nxt.position.x - position.x, position, nxt.s)]
         ELSE [tag |-> "Ok", point |-> Pt(nxt.position.x, nxt.position.y - off), s |-> nxt.s]

\* 247-297
draw_string(b, st, text, position, baseline, s) ==
    draw_string_finish(st, Pt(position.x, position.y + baseline_offset(st, baseline)),
                       baseline_offset(st, baseline),
                       draw_string_colors(b, st, text,
                           Pt(position.x, position.y + baseline_offset(st, baseline)), s))

\* TextMetrics
TextMetrics(bounding_box, next_position) ==
    [bounding_box |-> bounding_box, next_position |-> next_position]

\* measure_bbox that leaves the box where text_bbox puts it
measure_bbox_unshifted(b, st, text, position, baseline) ==
    IF text_bbox(b, st, text, position) = PanicRect THEN PanicRect
    ELSE IF text_bbox(b, st, text, position) # NoRect
    THEN text_bbox(b, st, text, position)
    ELSE Rect(position.x, position.y - baseline_offset(st, "Top"), 0, 0)

\* 339-349: the box of the text, moved down by the baseline offset; an empty
\* box for the empty text
measure_bbox(b, st, text, position, baseline) ==
    IF text_bbox(b, st, text, position) = PanicRect THEN PanicRect
    ELSE IF text_bbox(b, st, text, position) # NoRect
    THEN [text_bbox(b, st, text, position) EXCEPT !.y = @ + baseline_offset(st, baseline)]
    ELSE Rect(position.x,
              position.y + (baseline_offset(st, baseline) - baseline_offset(st, "Top")), 0, 0)

\* what dr.measure holds when measure_string panicked
PanicMetrics == TextMetrics(PanicRect, Pt(0, 0))

\* 353-356: next_position is position + bbox.size.x_axis()
measure_next(b, position, bbox) ==
    IF point_add_width(b, position, bbox.w, 0).panic THEN PanicMetrics
    ELSE TextMetrics(bbox, point_add_width(b, position, bbox.w, 0).position)

\* 333-357
measure_string(b, st, text, position, baseline) ==
    IF measure_bbox(b, st, text, position, baseline) = PanicRect THEN PanicMetrics
    ELSE measure_next(b, position, measure_bbox(b, st, text, position, baseline))

\* 359-361
line_height(st) == st.font.bounding_box.height

\* 311-320: the background box of the gap, filled on the surface itself
whitespace_fill(st, width, position, s) ==
    IF st.background_color # "None"
    THEN SurfaceCall(s, RectPoints(Rect(position.x, position.y, width,
                                        st.font.bounding_box.height)), st.background_color)
    ELSE s

\* 323-327: the decorations at the origin, and the returned point
whitespace_finish(st, width, origin, off, s) ==
    IF s.err THEN [tag |-> "Err", point |-> Pt(0, 0), s |-> s]
    ELSE [tag |-> IF draw_decorations(st, width, origin, s).err THEN "Err" ELSE "Ok",
          point |-> Pt(origin.x + width, origin.y - off),
          s |-> draw_decorations(st, width, origin, s)]

\* whitespace_at with the box hanging from the origin's row
whitespace_at_origin(st, width, position, off, max_ascent, s) ==
    whitespace_finish(st, width, Pt(position.x, position.y + off), off,
                      whitespace_fill(st, width, Pt(position.x, position.y + off), s))

\* 310-322: max_ascent is height + max_descent here
whitespace_at(st, width, position, off, max_ascent, s) ==
    whitespace_finish(st, width, Pt(position.x, position.y + off), off,
                      whitespace_fill(st, width, Pt(position.x, position.y + off - max_ascent), s))

\* 299-331
draw_whitespace(st, width, position, baseline, s) ==
    IF width # 0
    THEN whitespace_at(st, width, position, baseline_offset(st, baseline),
                       st.font.bounding_box.height + st.font.bounding_box.max_descent, s)
    ELSE [tag |-> "Ok", point |-> position, s |-> s]

(***************************************************************************)
(* The drawing scenario: one text drawn whole on one surface, and drawn in *)
(* two calls (s1, then s2 at the point the first call returned) on another *)
(* surface of the same kind.                                               *)
(***************************************************************************)
Glyph(kind, m, rows) == [kind |-> kind, m |-> m, rows |-> rows]

\* 'A' a plain glyph, 'V' a glyph that overhangs its advance on both sides,
\* ' ' an empty glyph with an advance, 'X' not in the font, 'Q' with metrics
\* but an unreadable bitmap, 'Z' with an unreadable index entry
DrawChars ==
    (65 :> Glyph("glyph", Metrics(0, 3, 4, 2, 0, 0), << <<160>>, <<64>> >>))
    @@ (86 :> Glyph("glyph", Metrics(-1, 5, 3, 1, 0, 0), << <<252>> >>))
    @@ (32 :> Glyph("glyph", Metrics(0, 0, 3, 0, 0, 0), << >>))
    @@ (88 :> Glyph("NotFound", ZeroMetrics, << >>))
    @@ (81 :> Glyph("IoBitmap", Metrics(0, 3, 4, 2, 0, 0), << >>))
    @@ (90 :> Glyph("Io", ZeroMetrics, << >>))

DrawAlphabet == DOMAIN DrawChars

\* the default character decodes ('A'), is itself not found ('X'), or cannot
\* be read ('Q'); the three fonts differ in the ascent and descent of their
\* bounds (2 + 1, 3 + 1, 2 + 0)
DrawFonts ==
    { [chars |-> DrawChars, default_char |-> d[1],
       bounding_box |-> parser_bounding_box(Metrics(-1, 0, 3, 0, 0, 0),
                                            Metrics(1, 10, 11, d[2], d[3], 0))] :
        d \in {<<65, 2, 1>>, <<88, 3, 1>>, <<81, 2, 0>>} }

DecorationColor(kind, c) == [kind |-> kind, c |-> c]

Decorations ==
    { <<DecorationColor("None", "None"), DecorationColor("None", "None")>>,
      <<DecorationColor("TextColor", "None"), DecorationColor("None", "None")>>,
      <<DecorationColor("Custom", "U"), DecorationColor("Custom", "S")>> }

\* PcfFontStyle: underline_color is d[1], strikethrough_color is d[2]
DrawStyles ==
    { [font |-> f, text_color |-> t, background_color |-> b,
       underline_color |-> d[1], strikethrough_color |-> d[2]] :
        f \in DrawFonts, t \in {"None", "T"}, b \in {"None", "B"}, d \in Decorations }

Baselines == {"Top", "Bottom", "Middle", "Alphabetic"}

Anchors == {Pt(0, 0), Pt(2, -1)}

MaxTextLen == 1

RECURSIVE TextsOf(_)
TextsOf(n) ==
    IF n = 0 THEN {<<>>}
    ELSE TextsOf(n - 1) \cup { Append(t, c) : t \in TextsOf(n - 1), c \in DrawAlphabet }

DrawTexts == TextsOf(MaxTextLen)

\* the calls a surface accepts before it fails: never fails, or fails after
\* 0 .. MaxOkCalls calls
MaxOkCalls == 1

SurfaceBudgets == {-1} \cup (0 .. MaxOkCalls)

NoCall(left) == [tag |-> "None", point |-> Pt(0, 0), s |-> Surface(left)]

NoMetrics == TextMetrics(Rect(0, 0, 0, 0), Pt(0, 0))

\* 371-373
set_text_color(st, text_color) == [st EXCEPT !.text_color = text_color]

\* 375-377
set_background_color(st, background_color) ==
    [st EXCEPT !.background_color = background_color]

\* 379-381
set_underline_color(st, underline_color) == [st EXCEPT !.underline_color = underline_color]

\* 383-385
set_strikethrough_color(st, strikethrough_color) ==
    [st EXCEPT !.strikethrough_color = strikethrough_color]

\* the values handed to the setters
TextColors == {"None", "T"}

BackgroundColors == {"None", "B"}

UnderlineColors ==
    {DecorationColor("None", "None"), DecorationColor("TextColor", "None"),
     DecorationColor("Custom", "U")}

StrikethroughColors == {DecorationColor("None", "None"), DecorationColor("Custom", "S")}

\* the setter calls made on the style between the two calls of a drawing in
\* two calls
MaxRestyles == 1

\* no style: what dr.used holds before the first call
Unstyled ==
    [font |-> NoFont, text_color |-> "None", background_color |-> "None",
     underline_color |-> DecorationColor("None", "None"),
     strikethrough_color |-> DecorationColor("None", "None")]

\* the widths of a gap drawn by draw_whitespace
MaxGap == 3

GapWidths == {0, MaxGap}


InitDraw ==
    /\ rcp = NoRecipe
    /\ ld = [pc |-> "idle"]
    /\ font = NoFont
    /\ out = NoOut
    /\ lk = NoRace
    /\ calc = NoCalc
    /\ \E st \in DrawStyles, bl \in Baselines, a \in Anchors, t1 \in DrawTexts, t2 \in DrawTexts,
          left \in SurfaceBudgets :
         dr = [pc |-> "start", st |-> st, used |-> Unstyled, restyles |-> 0,
               baseline |-> bl, anchor |-> a, s1 |-> t1, s2 |-> t2,
               whole |-> NoCall(left), first |-> NoCall(left), second |-> NoCall(left),
               measure |-> NoMetrics, gap |-> 0, space |-> NoCall(left)]

\* a setter has run on the style and left it as st: before the first call of
\* the scenario, or between the two calls of the drawing in two calls.
\* dr.used keeps the style the calls made so far were made with.
Restyle(st) ==
    /\ \/ /\ dr.pc = "start"
          /\ dr' = [dr EXCEPT !.st = st]
       \/ /\ dr.pc = "first"
          /\ dr.restyles < MaxRestyles
          /\ dr' = [dr EXCEPT !.st = st, !.restyles = dr.restyles + 1]
    /\ UNCHANGED <<rcp, ld, font, out, lk, calc>>

\* style.set_text_color(text_color)
SetTextColor == \E c \in TextColors : Restyle(set_text_color(dr.st, c))

\* style.set_background_color(background_color)
SetBackgroundColor == \E c \in BackgroundColors : Restyle(set_background_color(dr.st, c))

\* style.set_underline_color(underline_color)
SetUnderlineColor == \E c \in UnderlineColors : Restyle(set_underline_color(dr.st, c))

\* style.set_strikethrough_color(strikethrough_color)
SetStrikethroughColor ==
    \E c \in StrikethroughColors : Restyle(set_strikethrough_color(dr.st, c))

\* measure_string(s1 ++ s2) at the anchor
MeasureString ==
    /\ dr.pc = "start"
    /\ \E b \in Builds :
         dr' = [dr EXCEPT !.pc = "measured", !.used = dr.st,
                          !.measure = measure_string(b, dr.st, dr.s1 \o dr.s2, dr.anchor,
                                                     dr.baseline)]
    /\ UNCHANGED <<rcp, ld, font, out, lk, calc>>

\* draw_string(s1 ++ s2) at the anchor
DrawWhole ==
    /\ dr.pc = "measured"
    /\ \E b \in Builds :
         dr' = [dr EXCEPT !.pc = "whole",
                          !.whole = draw_string(b, dr.st, dr.s1 \o dr.s2, dr.anchor, dr.baseline,
                                                dr.whole.s)]
    /\ UNCHANGED <<rcp, ld, font, out, lk, calc>>

\* draw_string(s1) at the anchor, on the other surface
DrawFirst ==
    /\ dr.pc = "whole"
    /\ \E b \in Builds :
         dr' = [dr EXCEPT !.pc = "first",
                          !.first = draw_string(b, dr.st, dr.s1, dr.anchor, dr.baseline,
                                                dr.first.s)]
    /\ UNCHANGED <<rcp, ld, font, out, lk, calc>>

\* draw_string(s2) at the point the first call returned, with the style as
\* the setters left it
DrawSecond ==
    /\ dr.pc = "first"
    /\ dr.first.tag = "Ok"
    /\ \E b \in Builds :
         dr' = [dr EXCEPT !.pc = "second",
                          !.second = draw_string(b, dr.st, dr.s2, dr.first.point, dr.baseline,
                                                 dr.first.s)]
    /\ UNCHANGED <<rcp, ld, font, out, lk, calc>>

\* draw_whitespace(width) at the anchor, on a surface of its own
DrawWhitespace ==
    /\ dr.pc = "whole"
    /\ \E width \in GapWidths :
         dr' = [dr EXCEPT !.pc = "space", !.gap = width,
                          !.space = draw_whitespace(dr.st, width, dr.anchor, dr.baseline,
                                                    dr.space.s)]
    /\ UNCHANGED <<rcp, ld, font, out, lk, calc>>

NextDraw ==
    \/ SetTextColor \/ SetBackgroundColor \/ SetUnderlineColor \/ SetStrikethroughColor
    \/ MeasureString \/ DrawWhole \/ DrawFirst \/ DrawSecond \/ DrawWhitespace

SpecDraw == InitDraw /\ [][NextDraw]_vars

(***************************************************************************)
(* Measuring and drawing with a font that has a glyph of negative          *)
(* character_width (the field is a signed 16-bit number of the file).      *)
(***************************************************************************)
\* the characters of DrawChars, and 'N': two pixels wide, character_width -1
MeasureChars ==
    DrawChars @@ (78 :> Glyph("glyph", Metrics(0, 2, -1, 1, 0, 0), << <<192>> >>))

MeasureAlphabet == DOMAIN MeasureChars

MeasureFonts == { [f EXCEPT !.chars = MeasureChars] : f \in DrawFonts }

MeasureStyles == { [st EXCEPT !.font = f] : st \in DrawStyles, f \in MeasureFonts }

MeasureTexts == {<<>>} \cup { <<c>> : c \in MeasureAlphabet }

InitMeasure ==
    /\ rcp = NoRecipe
    /\ ld = [pc |-> "idle"]
    /\ font = NoFont
    /\ out = NoOut
    /\ lk = NoRace
    /\ calc = NoCalc
    /\ \E st \in MeasureStyles, bl \in Baselines, a \in Anchors, t1 \in MeasureTexts,
          t2 \in MeasureTexts :
         dr = [pc |-> "start", st |-> st, used |-> Unstyled, restyles |-> 0,
               baseline |-> bl, anchor |-> a, s1 |-> t1, s2 |-> t2,
               whole |-> NoCall(-1), first |-> NoCall(-1), second |-> NoCall(-1),
               measure |-> NoMetrics, gap |-> 0, space |-> NoCall(-1)]

NextMeasure == MeasureString \/ DrawWhole

SpecMeasure == InitMeasure /\ [][NextMeasure]_vars

\* the style the calls made so far were made with
CallStyle == IF dr.pc = "start" THEN dr.st ELSE dr.used

\* no setter has changed the style since those calls
SameStyle == dr.st = CallStyle

(***************************************************************************)
(* What the recipe of a container says about it, read off the recipe and   *)
(* not off the bytes.                                                      *)
(***************************************************************************)
Has(r, k) == \E i \in 1 .. Len(r.toc) : r.toc[i] = k

HasAccel(r) == Has(r, TT_BdfAccelerators) \/ Has(r, TT_Accelerators)

\* the accelerator table a reader is to use: the BDF one when there is one
AccelFormatUsed(r) == IF Has(r, TT_BdfAccelerators) THEN r.fmtA ELSE r.fmtP

AccelUsed(r) == IF Has(r, TT_BdfAccelerators) THEN r.acc ELSE r.accPlain

FlagsSet(fmt) == (fmt \div 4) % 2 = 1 /\ (fmt \div 8) % 2 = 1

ScanUnit(fmt) == (fmt \div 16) % 4

PadBits(fmt) == fmt % 4

Compressed(fmt) == (fmt \div 256) % 2 = 1

\* the four required tables in the order bitmaps, metrics, encodings, accelerator
SlotPresent(r, i) ==
    CASE i = 1 -> Has(r, TT_Bitmaps) [] i = 2 -> Has(r, TT_Metrics)
      [] i = 3 -> Has(r, TT_BdfEncodings) [] OTHER -> HasAccel(r)

SlotFormat(r, i) ==
    CASE i = 1 -> r.fmtB [] i = 2 -> r.fmtM [] i = 3 -> r.fmtE [] OTHER -> AccelFormatUsed(r)

AllPresent(r) == \A i \in 1 .. 4 : SlotPresent(r, i)

AllFlags(r) == \A i \in 1 .. 4 : FlagsSet(SlotFormat(r, i))

\* no byte is cut off, and the records the table count announces are there
\* (one more record than tables reads the head of the first table as a record
\* of no known type)
TocReadable(r) == r.keep = 100000 /\ r.table_count <= Len(r.toc) + 1

GoodMagic(r) == r.magic = <<1, 102, 99, 112>>

\* where the bitmaps table starts in the container of r
BitmapsOffset(r) ==
    LET i == CHOOSE j \in 1 .. Len(r.toc) : r.toc[j] = TT_Bitmaps
    IN  TableOffsets(r, r.toc, 8 + 16 * Len(r.toc))[i]

\* the 12 bytes that follow the announced glyph offsets are in the container
CountsReadable(r) == BitmapsOffset(r) + 8 + 4 * r.glyph_count + 12 <= FullLen(r)

WellFormed(r) ==
    /\ GoodMagic(r) /\ r.keep = 100000 /\ r.table_count = Len(r.toc)
    /\ AllPresent(r) /\ AllFlags(r)
    /\ ScanUnit(r.fmtB) = 0 /\ PadBits(r.fmtB) # 3
    /\ r.metrics_count = r.glyph_count
    /\ r.defect \in {"none", "missing", "flags", "bounds", "domain"}

Done == ld.pc = "done"

(***************************************************************************)
(* Properties of load_pcf_font, checked under Spec.                        *)
(***************************************************************************)
\* C1 (as stated): every well-formed container loads, Ok(handle), and the
\* handle's glyph_count is the count stored after the bitmaps format field.
C1_WellFormedLoads ==
    (Done /\ WellFormed(rcp)) =>
        /\ ld.result = Ok
        /\ font # NoFont
        /\ font.glyph_count = rcp.glyph_count

\* C2: a container whose first four bytes are readable and are not the
\* signature is refused with UnsupportedFormat, wherever the cursor stood;
\* the signature is read from offset 0, so the table count is read at 4.
C2_BadMagicUnsupported ==
    /\ (Done /\ rcp.keep >= 4 /\ ~GoodMagic(rcp)) =>
           (ld.result = Err("UnsupportedFormat") /\ font = NoFont)
    /\ (ld.pc = "toc_count") => (GoodMagic(rcp) /\ ld.data.pos = 4)

C2_Witness ==
    /\ Done /\ ~GoodMagic(rcp) /\ rcp.start = 6
    /\ ld.result = Err("UnsupportedFormat")

\* the first of the four required tables that is missing or lacks a flag
FirstOffender(r) ==
    CHOOSE i \in 1 .. 4 :
        /\ ~SlotPresent(r, i) \/ ~FlagsSet(SlotFormat(r, i))
        /\ \A j \in 1 .. i - 1 : SlotPresent(r, j) /\ FlagsSet(SlotFormat(r, j))

\* C3 (as stated): a missing required table gives CorruptedData whatever the
\* format flags of the tables that are present.
C3_MissingIsCorrupted ==
    (Done /\ GoodMagic(rcp) /\ TocReadable(rcp) /\ ~AllPresent(rcp)) =>
        ld.result = Err("CorruptedData")

\* C3 (amended): with a required table missing the load fails: with
\* CorruptedData when the first table, in the order bitmaps, metrics,
\* encodings, accelerator, that is missing or lacks an order flag is a
\* missing one, with UnsupportedFormat when it is a present one.  The plain
\* accelerators stand in for missing BDF accelerators, and the BDF ones are
\* used when both are there.
C3_FirstOffenderDecides ==
    /\ (Done /\ GoodMagic(rcp) /\ TocReadable(rcp) /\ ~AllPresent(rcp)) =>
           /\ font = NoFont
           /\ ld.result = IF SlotPresent(rcp, FirstOffender(rcp))
                          THEN Err("UnsupportedFormat") ELSE Err("CorruptedData")
    /\ (Done /\ WellFormed(rcp) /\ ~Has(rcp, TT_BdfAccelerators)) =>
           ld.result.tag # "Err"
    /\ (Done /\ ld.result = Ok) =>
           /\ HasAccel(rcp)
           /\ font.ascent = AccelUsed(rcp).ascent
           /\ font.descent = AccelUsed(rcp).descent

C3_Witness ==
    /\ Done /\ GoodMagic(rcp) /\ TocReadable(rcp)
    /\ ~Has(rcp, TT_BdfEncodings) /\ ~FlagsSet(rcp.fmtM)
    /\ ld.result = Err("UnsupportedFormat")

\* C4: with the four required tables present, a table without the byte-order
\* or the bit-order flag, or a bitmaps scan unit other than 0, is refused
\* with UnsupportedFormat and no handle.
C4_OrderAndScanUnit ==
    (Done /\ GoodMagic(rcp) /\ TocReadable(rcp) /\ AllPresent(rcp)
          /\ (~AllFlags(rcp) \/ ScanUnit(rcp.fmtB) # 0)) =>
        (ld.result = Err("UnsupportedFormat") /\ font = NoFont)

C4_Witness ==
    /\ Done /\ GoodMagic(rcp) /\ TocReadable(rcp) /\ AllPresent(rcp)
    /\ AllFlags(rcp) /\ ScanUnit(rcp.fmtB) # 0 /\ PadBits(rcp.fmtB) = 3
    /\ ld.result = Err("UnsupportedFormat")

\* the checks that come before the padding and count checks pass
ChecksPass(r) ==
    /\ GoodMagic(r) /\ TocReadable(r) /\ AllPresent(r) /\ AllFlags(r)
    /\ ScanUnit(r.fmtB) = 0

\* C5 (as stated): padding bits 3, or a metrics count other than the glyph
\* count, give CorruptedData.
C5_PadOrCountCorrupted ==
    (Done /\ ChecksPass(rcp)
          /\ (PadBits(rcp.fmtB) = 3 \/ rcp.metrics_count # rcp.glyph_count)) =>
        ld.result = Err("CorruptedData")

\* C5 (amended): padding bits 3 give CorruptedData; a metrics count other
\* than the glyph count gives CorruptedData when the 12 bytes after the
\* announced glyph offsets can be read, and Io when they cannot; a handle's
\* padding mode is Byte, Short, Int for padding bits 0, 1, 2.
C5_PadOrReadableCount ==
    /\ (Done /\ ChecksPass(rcp) /\ PadBits(rcp.fmtB) = 3) =>
           (ld.result = Err("CorruptedData") /\ font = NoFont)
    /\ (Done /\ ChecksPass(rcp) /\ rcp.metrics_count # rcp.glyph_count
             /\ CountsReadable(rcp)) =>
           (ld.result = Err("CorruptedData") /\ font = NoFont)
    /\ (Done /\ ChecksPass(rcp) /\ PadBits(rcp.fmtB) # 3
             /\ rcp.metrics_count # rcp.glyph_count /\ ~CountsReadable(rcp)) =>
           (ld.result = Err("Io") /\ font = NoFont)
    /\ (Done /\ ld.result = Ok) =>
           font.glyph_row_padding_format =
               (CASE PadBits(rcp.fmtB) = 0 -> "Byte" [] PadBits(rcp.fmtB) = 1 -> "Short"
                  [] OTHER -> "Int")

C5_Witness ==
    /\ Done /\ ChecksPass(rcp) /\ Compressed(rcp.fmtM) /\ PadBits(rcp.fmtB) = 1
    /\ rcp.metrics_count = 260 /\ CountsReadable(rcp)
    /\ ld.result = Err("CorruptedData")

\* C6 (as stated): load_pcf_font ends with a handle or with an error, and a
\* failed read ends it with Io.
C6_HandleOrError ==
    Done =>
        /\ ld.result.tag \in {"Ok", "Err"}
        /\ (ld.result.tag = "Ok") <=> (font # NoFont)
        /\ (rcp.defect = "cut") => (ld.result \in {Ok, Err("Io")})
        /\ (rcp.defect = "tablecount" /\ rcp.table_count > Len(rcp.toc) + 1) =>
               ld.result = Err("Io")

(***************************************************************************)
(* Properties of the lookups, checked under SpecLookup.                    *)
(***************************************************************************)
Enc1(cp) == cp \div 256

Enc2(cp) == cp % 256

InDomain(f, cp) ==
    /\ f.min_byte1 <= Enc1(cp) /\ Enc1(cp) <= f.max_byte1
    /\ f.min_char_or_byte2 <= Enc2(cp) /\ Enc2(cp) <= f.max_char_or_byte2

\* the position of the entry of cp, in unbounded arithmetic
EntryAt(f, cp) ==
    f.encoded_glyph_indices_location
        + 2 * ((Enc1(cp) - f.min_byte1) * (f.max_char_or_byte2 - f.min_char_or_byte2 + 1)
               + (Enc2(cp) - f.min_char_or_byte2))

\* C7 (as stated): a code point outside the domain is NotFound; otherwise the
\* big-endian 16-bit entry at the stated position decides: 0xFFFF is
\* NotFound, any other value is the glyph index (an entry past the end of
\* the source is an Io error).  With the four bounds in 0..255 the
\* computation does not overflow.
C7_IndexLookup ==
    (out.op = "get_glyph_index") =>
        LET cp == out.code_point
            at == EntryAt(font, cp)
            bytes == font.data.bytes
        IN  IF ~InDomain(font, cp) THEN out.tag = "Err" /\ out.err = "NotFound"
            ELSE IF at + 2 > Len(bytes) THEN out.tag = "Err" /\ out.err = "Io"
            ELSE IF bytes[at + 1] * 256 + bytes[at + 2] = 65535
                 THEN out.tag = "Err" /\ out.err = "NotFound"
            ELSE out.tag = "Ok" /\ out.val = bytes[at + 1] * 256 + bytes[at + 2]

\* the glyph the recipe gives code point cp, if any
IdxSlot(r, cp) ==
    (Enc1(cp) - r.enc.min1) * (r.enc.max2 - r.enc.min2 + 1) + (Enc2(cp) - r.enc.min2) + 1

Resolvable(r, cp) ==
    /\ r.enc.min1 <= Enc1(cp) /\ Enc1(cp) <= r.enc.max1
    /\ r.enc.min2 <= Enc2(cp) /\ Enc2(cp) <= r.enc.max2
    /\ IdxSlot(r, cp) <= Len(r.enc.idx)
    /\ r.enc.idx[IdxSlot(r, cp)] < Len(r.glyphs)

GlyphOfCp(r, cp) == r.glyphs[r.enc.idx[IdxSlot(r, cp)] + 1]

CeilDiv8(w) == (w + 7) \div 8

\* C8 (as stated): for a resolvable code point whose glyph is w wide and h
\* high, read_glyph_raw returns (h * ceil(w/8), w) and the buffer holds, row
\* after row, the first ceil(w/8) bytes of each stored row; the padding
\* skipped per row is not negative; w = 0 or h = 0 gives Ok with length 0.
\* The container is complete and the buffer holds h * ceil(w/8) bytes.
C8_GlyphRows ==
    (/\ out.op = "read_glyph_raw"
     /\ rcp.keep = 100000 /\ rcp.enc.max2 <= 255
     /\ Resolvable(rcp, out.code_point)) =>
        LET g == GlyphOfCp(rcp, out.code_point)
            w == g.m.right_side_bearing - g.m.left_side_bearing
            h == g.m.character_ascent + g.m.character_descent
            c == CeilDiv8(w)
        IN  (w >= 0 /\ h >= 0 /\ Len(out.buf) >= h * c) =>
                /\ out.tag = "Ok"
                /\ out.length = h * c
                /\ out.width = w
                /\ \A r \in 0 .. h - 1 :
                       SubSeq(out.buf, r * c + 1, (r + 1) * c) = g.rows[r + 1]
                /\ bytes_per_row(w, PaddingBytes(font.glyph_row_padding_format))
                       >= bytes_per_row(w, 1)
                /\ (w = 0 \/ h = 0) => out.length = 0

\* the accelerator bounds of the handle bound every glyph of the container:
\* no glyph is wider or higher than the bounding box
BoundsAllGlyphs(f, r) ==
    \A i \in 1 .. Len(r.glyphs) :
        LET m == r.glyphs[i].m
        IN  /\ 0 <= m.right_side_bearing - m.left_side_bearing
            /\ m.right_side_bearing - m.left_side_bearing <= f.bounding_box[1]
            /\ 0 <= m.character_ascent + m.character_descent
            /\ m.character_ascent + m.character_descent <= f.bounding_box[2]

\* the length written stays within max_bytes_per_glyph() = height * ceil(width / 8)
LengthWithinMax ==
    (/\ out.op = "read_glyph_raw" /\ out.tag = "Ok"
     /\ rcp.keep = 100000 /\ BoundsAllGlyphs(font, rcp)) =>
        \A b \in Builds :
            /\ ~max_bytes_per_glyph(b, font).panic /\ ~max_bytes_per_glyph(b, font).huge
            /\ max_bytes_per_glyph(b, font).v = font.bounding_box[2] * CeilDiv8(font.bounding_box[1])
            /\ out.length <= max_bytes_per_glyph(b, font).v

\* C19 (as stated): for every glyph of a loaded font whose accelerator bounds
\* bound all per-glyph metrics, the length read_glyph_raw writes is at most
\* max_bytes_per_glyph() = bounding-box height * ceil(bounding-box width / 8),
\* and the buffer string drawing hands to read_glyph_raw holds at least that
\* many bytes for every font load_pcf_font accepts, so that decoding into it
\* never writes past its end.
C19_BufferBound ==
    /\ LengthWithinMax
    /\ (font # NoFont /\ rcp.keep = 100000 /\ BoundsAllGlyphs(font, rcp)) =>
          \A b \in Builds : GlyphBufLen >= max_bytes_per_glyph(b, font).v
    /\ (/\ out.op = "read_glyph_raw" /\ Len(out.buf) = GlyphBufLen
        /\ rcp.keep = 100000 /\ BoundsAllGlyphs(font, rcp)) => out.tag # "Panic"

\* the part of C19 about max_bytes_per_glyph() alone, with a glyph that needs
\* all of it
C19_TallGlyphRead ==
    /\ out.op = "read_glyph_raw" /\ out.tag = "Ok"
    /\ rcp.defect = "tall" /\ BoundsAllGlyphs(font, rcp)
    /\ out.length = 42 /\ max_bytes_per_glyph("release", font).v = 42

(***************************************************************************)
(* The drawing claims.                                                     *)
(***************************************************************************)
\* what the character shows according to the claim: its own glyph when it
\* decodes, the default character's glyph when it is not found and that one
\* decodes, nothing otherwise
Shown(f, cp) ==
    CASE f.chars[cp].kind = "glyph" -> {f.chars[cp]}
      [] f.chars[cp].kind = "NotFound" /\ f.chars[f.default_char].kind = "glyph" ->
           {f.chars[f.default_char]}
      [] OTHER -> {}

Advance(f, cp) == IF Shown(f, cp) = {} THEN 0 ELSE (CHOOSE g \in Shown(f, cp) : TRUE).m.character_width

\* the set pixels of a glyph whose origin is at (x, y), read off its rows
Ink(g, x, y) ==
    { <<x + g.m.left_side_bearing + i, y - g.m.character_ascent + (r - 1)>> :
        <<i, r>> \in { q \in (0 .. glyph_width(g.m) - 1) \X (1 .. Len(g.rows)) :
                        (g.rows[q[2]][(q[1] \div 8) + 1] \div Pow2(7 - (q[1] % 8))) % 2 = 1 } }

RECURSIVE PenAfter(_, _, _)
PenAfter(f, text, x) ==
    IF text = <<>> THEN x ELSE PenAfter(f, Tail(text), x + Advance(f, Head(text)))

RECURSIVE InkOf(_, _, _, _)
InkOf(f, text, x, y) ==
    IF text = <<>> THEN {}
    ELSE UNION { Ink(g, x, y) : g \in Shown(f, Head(text)) }
         \cup InkOf(f, Tail(text), x + Advance(f, Head(text)), y)

Undecorated(st) == st.underline_color.kind = "None" /\ st.strikethrough_color.kind = "None"

\* C9 (as stated): for every combination of set and unset colours, a call of
\* draw_string that returns Ok has moved the pen by the character_width of
\* every character that decodes, by the default glyph's character_width for
\* every character that is not found when the default character decodes, and
\* by nothing for the others, all characters being processed; with only the
\* text colour set and no decoration the surface shows exactly those glyphs;
\* and the call returns Err only when the surface reported an error.
C9_PerCharacterContainment ==
    dr.pc \in {"whole", "first", "second"} =>
        /\ dr.whole.tag \in {"Ok", "Err"}
        /\ dr.whole.tag = "Err" => dr.whole.s.err
        /\ dr.whole.tag = "Ok" =>
             /\ dr.whole.point = Pt(PenAfter(CallStyle.font, dr.s1 \o dr.s2, dr.anchor.x), dr.anchor.y)
             /\ (CallStyle.text_color # "None" /\ CallStyle.background_color = "None" /\ Undecorated(CallStyle))
                  => dr.whole.s.px =
                       { <<q[1], q[2], CallStyle.text_color>> :
                           q \in InkOf(CallStyle.font, dr.s1 \o dr.s2, dr.anchor.x,
                                       dr.anchor.y + baseline_offset(CallStyle, dr.baseline)) }

\* C10 (as stated): for all strings s1 and s2, every anchor, baseline and
\* style, drawing s1 and then s2 at the returned point leaves the same pixels
\* on the surface and returns the same final point as drawing s1 ++ s2 at the
\* anchor, and the returned point keeps the y of the anchor.
C10_DrawingComposes ==
    (/\ dr.pc = "second" /\ SameStyle
     /\ dr.whole.tag = "Ok" /\ dr.first.tag = "Ok" /\ dr.second.tag = "Ok") =>
        /\ dr.second.s.px = dr.whole.s.px
        /\ dr.second.point = dr.whole.point
        /\ dr.first.point.y = dr.anchor.y
        /\ dr.whole.point.y = dr.anchor.y

(***************************************************************************)
(* Measurement.                                                            *)
(***************************************************************************)
WholeText == dr.s1 \o dr.s2

Measured == dr.pc # "start"

\* the metrics of the character resolve
MetricsResolve(f, cp) == f.chars[cp].kind \in {"glyph", "IoBitmap"}

RECURSIVE SumOfWidths(_, _)
SumOfWidths(f, text) ==
    IF text = <<>> THEN 0
    ELSE (IF MetricsResolve(f, Head(text)) THEN f.chars[Head(text)].m.character_width
          ELSE f.bounding_box.width)
         + SumOfWidths(f, Tail(text))

\* a u32 held as its 32-bit pattern has the value n (an integer below 2^31)
U32Is(pattern, n) == pattern >= 0 /\ pattern = n

\* C11 (as stated): measure_string returns a box as wide as the sum of the
\* character_width of the characters whose metrics resolve and of the
\* bounding-box width for the others, and a next_position that far right of
\* the anchor on the same y; a single resolving character measures exactly
\* its character_width.
C11_MeasuredWidth ==
    Measured =>
        /\ dr.measure # PanicMetrics
        /\ U32Is(dr.measure.bounding_box.w, SumOfWidths(CallStyle.font, WholeText))
        /\ dr.measure.next_position =
             Pt(dr.anchor.x + SumOfWidths(CallStyle.font, WholeText), dr.anchor.y)
        /\ (Len(WholeText) = 1 /\ MetricsResolve(CallStyle.font, WholeText[1]))
             => U32Is(dr.measure.bounding_box.w,
                      CallStyle.font.chars[WholeText[1]].m.character_width)

DrawnWhole == dr.pc \in {"whole", "first", "second", "space"}

\* the columns that hold a pixel of the background colour
FilledColumns(sf, color) == { q[1] : q \in { t \in sf.px : t[3] = color } }

\* C12 (as stated): for every text, anchor, baseline and colour configuration
\* the point draw_string returns is measure_string's next_position, and the
\* background box draw_string fills is as wide as measure_string reports and
\* as wide as the distance the pen advanced (the box is read off the surface
\* where nothing but the background is written).
C12_MeasureAndDrawAgree ==
    (DrawnWhole /\ dr.whole.tag = "Ok") =>
        /\ dr.whole.point = dr.measure.next_position
        /\ (CallStyle.background_color # "None" /\ CallStyle.text_color = "None"
              /\ Undecorated(CallStyle) /\ WholeText # <<>>) =>
             /\ Cardinality(FilledColumns(dr.whole.s, CallStyle.background_color))
                  = dr.measure.bounding_box.w
             /\ Cardinality(FilledColumns(dr.whole.s, CallStyle.background_color))
                  = dr.whole.point.x - dr.anchor.x

\* C13: the empty string measures to width 0 with next_position at the
\* anchor, and drawing it makes no call on the surface, writes no pixel and
\* returns the anchor, in every style, baseline and anchor (also on a surface
\* that would refuse its first call).
C13_EmptyString ==
    /\ (Measured /\ WholeText = <<>>) =>
          /\ dr.measure.bounding_box.w = 0
          /\ dr.measure.next_position = dr.anchor
    /\ (DrawnWhole /\ WholeText = <<>>) =>
          /\ dr.whole.tag = "Ok"
          /\ dr.whole.s.calls = 0 /\ dr.whole.s.px = {}
          /\ dr.whole.point = dr.anchor
    /\ (dr.pc \in {"first", "second"} /\ dr.s1 = <<>>) =>
          /\ dr.first.tag = "Ok"
          /\ dr.first.s.calls = 0 /\ dr.first.s.px = {}
          /\ dr.first.point = dr.anchor

\* the empty string has been drawn with a background and custom decorations
\* on a surface that accepts no call
C13_Witness ==
    /\ DrawnWhole /\ WholeText = <<>>
    /\ CallStyle.background_color = "B" /\ CallStyle.underline_color.kind = "Custom"
    /\ CallStyle.strikethrough_color.kind = "Custom"
    /\ dr.whole.s.left = 0
    /\ dr.whole.tag = "Ok" /\ dr.whole.s.calls = 0

TopEdge == dr.anchor.y + baseline_offset(CallStyle, dr.baseline) - baseline_offset(CallStyle, "Top")

\* C14 (as stated): the box measure_string returns is as high as the font's
\* bounding box for every text, whatever its length or content, and its top
\* edge is at anchor.y + baseline_offset(baseline) - baseline_offset(Top).
C14_MeasuredHeightAlways ==
    Measured =>
        /\ dr.measure.bounding_box.h = CallStyle.font.bounding_box.height
        /\ dr.measure.bounding_box.y = TopEdge

\* C14 (amended): for every text that is not empty the box is as high as the
\* font's bounding box (the line height); for the empty text the box is 0
\* wide and 0 high; in both cases the box starts at the anchor's x and its
\* top edge is at anchor.y + baseline_offset(baseline) - baseline_offset(Top).
C14_MeasuredHeight ==
    Measured =>
        /\ WholeText # <<>> =>
             /\ dr.measure.bounding_box.h = CallStyle.font.bounding_box.height
             /\ dr.measure.bounding_box.h = line_height(CallStyle)
        /\ WholeText = <<>> =>
             /\ dr.measure.bounding_box.h = 0
             /\ dr.measure.bounding_box.w = 0
        /\ dr.measure.bounding_box.x = dr.anchor.x
        /\ dr.measure.bounding_box.y = TopEdge

\* a text of two characters without metrics has been measured under the
\* Middle baseline on the font whose box is 4 high: the top edge is the
\* anchor's y - 1
C14_Witness ==
    /\ Measured
    /\ WholeText = <<88, 90>>
    /\ dr.baseline = "Middle"
    /\ CallStyle.font.bounding_box.height = 4
    /\ dr.measure.bounding_box.h = 4
    /\ dr.measure.bounding_box.y = dr.anchor.y - 1

(***************************************************************************)
(* Baselines.                                                              *)
(***************************************************************************)
\* the offsets as the claim gives them, from the font's bounding box
StatedOffset(bb, baseline) ==
    CASE baseline = "Top" -> bb.max_ascent
      [] baseline = "Bottom" -> 1 + bb.max_descent
      [] baseline = "Middle" -> 1 + (bb.height \div 2) + bb.max_descent
      [] baseline = "Alphabetic" -> 1

\* the rows that hold a written pixel
RowsOf(sf) == { q[2] : q \in sf.px }

BackgroundOnly == CallStyle.background_color # "None" /\ CallStyle.text_color = "None"

\* C15: the baseline offset is max_ascent (Top), 1 + max_descent (Bottom),
\* 1 + height/2 + max_descent (Middle), 1 (Alphabetic); the box of a text is
\* placed at anchor.y + offset - max_ascent, so that under Top its top row is
\* the anchor's row and under Bottom its bottom row is the anchor's row, in
\* the measured box and in the box draw_string fills.
C15_BaselineOffsets ==
    /\ Measured =>
         /\ baseline_offset(CallStyle, dr.baseline) = StatedOffset(CallStyle.font.bounding_box, dr.baseline)
         /\ WholeText # <<>> =>
              /\ dr.measure.bounding_box.y =
                   dr.anchor.y + StatedOffset(CallStyle.font.bounding_box, dr.baseline)
                     - CallStyle.font.bounding_box.max_ascent
              /\ dr.baseline = "Top" => dr.measure.bounding_box.y = dr.anchor.y
              /\ dr.baseline = "Bottom" =>
                   dr.measure.bounding_box.y + dr.measure.bounding_box.h - 1 = dr.anchor.y
    /\ (DrawnWhole /\ dr.whole.tag = "Ok" /\ BackgroundOnly /\ Undecorated(CallStyle)
          /\ WholeText # <<>>) =>
         /\ RowsOf(dr.whole.s) # {}
         /\ dr.baseline = "Top" => \A r \in RowsOf(dr.whole.s) : r >= dr.anchor.y
         /\ dr.baseline = "Top" => dr.anchor.y \in RowsOf(dr.whole.s)
         /\ dr.baseline = "Bottom" => \A r \in RowsOf(dr.whole.s) : r <= dr.anchor.y
         /\ dr.baseline = "Bottom" => dr.anchor.y \in RowsOf(dr.whole.s)

\* a background box has been drawn under the Bottom baseline on the font
\* whose box is 4 high: it covers the rows anchor.y - 3 .. anchor.y
C15_Witness ==
    /\ DrawnWhole /\ dr.whole.tag = "Ok" /\ BackgroundOnly /\ Undecorated(CallStyle)
    /\ WholeText = <<65>>
    /\ dr.baseline = "Bottom"
    /\ CallStyle.font.bounding_box.height = 4
    /\ RowsOf(dr.whole.s) = (dr.anchor.y - 3) .. dr.anchor.y

(***************************************************************************)
(* Compositing.                                                            *)
(***************************************************************************)
Colored(points, color) == { <<q[1], q[2], color>> : q \in points }

\* the 'on' bits of the glyphs of the text, each at its pen position plus
\* (left_side_bearing, -character_ascent)
WholeInk ==
    InkOf(CallStyle.font, WholeText, dr.anchor.x, dr.anchor.y + baseline_offset(CallStyle, dr.baseline))

\* the box of the text
WholeBox == RectPoints(dr.measure.bounding_box)

\* C16: without decorations, a draw_string call that returns Ok leaves on the
\* surface: with only the text colour set, the 'on' bits of the glyphs in the
\* text colour and nothing else; with only the background colour set, the box
\* of the text in the background colour and nothing else; with both set, the
\* box in the background colour with the 'on' bits in the text colour over it;
\* with neither set, nothing, no call being made on the surface, while the pen
\* still advances.
C16_CompositingModes ==
    (DrawnWhole /\ dr.whole.tag = "Ok" /\ Undecorated(CallStyle)) =>
        /\ (CallStyle.text_color # "None" /\ CallStyle.background_color = "None") =>
             dr.whole.s.px = Colored(WholeInk, CallStyle.text_color)
        /\ (CallStyle.text_color = "None" /\ CallStyle.background_color # "None") =>
             dr.whole.s.px = Colored(WholeBox, CallStyle.background_color)
        /\ (CallStyle.text_color # "None" /\ CallStyle.background_color # "None") =>
             dr.whole.s.px = Colored(WholeBox \ WholeInk, CallStyle.background_color)
                               \cup Colored(WholeInk, CallStyle.text_color)
        /\ (CallStyle.text_color = "None" /\ CallStyle.background_color = "None") =>
             /\ dr.whole.s.px = {}
             /\ dr.whole.s.calls = 0
             /\ WholeText # <<>> => dr.whole.point.x > dr.anchor.x
             /\ dr.whole.point.y = dr.anchor.y

\* "VA" has been drawn with both colours: the overhanging pixel of 'V' is in
\* the text colour inside the box of 'A', the rest of the box in the
\* background colour
C16_Witness ==
    /\ DrawnWhole /\ dr.whole.tag = "Ok" /\ Undecorated(CallStyle)
    /\ CallStyle.text_color = "T" /\ CallStyle.background_color = "B"
    /\ WholeText = <<86, 65>>
    /\ dr.anchor = Pt(0, 0) /\ dr.baseline = "Alphabetic"
    /\ <<3, 0, "T">> \in dr.whole.s.px
    /\ <<-1, 0, "T">> \in dr.whole.s.px
    /\ <<0, -1, "B">> \in dr.whole.s.px

(***************************************************************************)
(* Decorations.                                                            *)
(***************************************************************************)
\* the colour the claim gives a decoration, "None" when it is not drawn
StatedColor(st, d) ==
    CASE d.kind = "Custom" -> d.c
      [] d.kind = "TextColor" -> st.text_color
      [] OTHER -> "None"

Configured(st) ==
    {StatedColor(st, st.underline_color), StatedColor(st, st.strikethrough_color)} \ {"None"}

DecorationCount(st) ==
    (IF StatedColor(st, st.underline_color) # "None" THEN 1 ELSE 0)
    + (IF StatedColor(st, st.strikethrough_color) # "None" THEN 1 ELSE 0)

\* the characters of the text for which a bitmap with rows is drawn
RECURSIVE InkedGlyphs(_, _)
InkedGlyphs(f, text) ==
    IF text = <<>> THEN 0
    ELSE (IF \E g \in Shown(f, Head(text)) : Len(g.rows) > 0 THEN 1 ELSE 0)
         + InkedGlyphs(f, Tail(text))

\* the calls draw_string makes on the surface before the decorations
CallsBeforeDecorations(st, text) ==
    (IF st.background_color # "None" /\ text # <<>> THEN 1 ELSE 0)
    + (IF st.text_color # "None" THEN InkedGlyphs(st.font, text) ELSE 0)

\* the line of a decoration: w wide, one high, at the pen's start x
LineAt(x, y, w) == RectPoints(Rect(x, y, w, 1))

WholeOrigin == dr.anchor.y + baseline_offset(CallStyle, dr.baseline)

StrikeRow == WholeOrigin - StatedOffset(CallStyle.font.bounding_box, "Middle")

UnderRow == WholeOrigin - StatedOffset(CallStyle.font.bounding_box, "Bottom")

WholeAdvance == dr.whole.point.x - dr.anchor.x

\* C17: after a draw_string call whose characters advanced the pen by w > 0,
\* each configured decoration is one rectangle, w wide and 1 high, from the
\* pen's start x: the strikethrough on the row origin - baseline_offset(Middle),
\* the underline on the row origin - baseline_offset(Bottom), in the custom
\* colour or, for the use-foreground setting, the text colour; a decoration
\* set to none, or set to use-foreground without a text colour, or any
\* decoration when w = 0, causes no call; both rows are rows of the box
\* measure_string reports.
C17_Decorations ==
    (DrawnWhole /\ dr.whole.tag = "Ok") =>
        /\ dr.whole.s.calls = CallsBeforeDecorations(CallStyle, WholeText)
                                + (IF WholeAdvance > 0 THEN DecorationCount(CallStyle) ELSE 0)
        /\ (WholeAdvance > 0 /\ StatedColor(CallStyle, CallStyle.underline_color) # "None") =>
             Colored(LineAt(dr.anchor.x, UnderRow, WholeAdvance),
                     StatedColor(CallStyle, CallStyle.underline_color)) \subseteq dr.whole.s.px
        /\ (WholeAdvance > 0 /\ StatedColor(CallStyle, CallStyle.strikethrough_color) # "None"
              /\ (StrikeRow # UnderRow \/ StatedColor(CallStyle, CallStyle.underline_color) = "None")) =>
             Colored(LineAt(dr.anchor.x, StrikeRow, WholeAdvance),
                     StatedColor(CallStyle, CallStyle.strikethrough_color)) \subseteq dr.whole.s.px
        /\ { q \in dr.whole.s.px : q[3] = "U" } =
             (IF WholeAdvance > 0 /\ CallStyle.underline_color.kind = "Custom"
              THEN Colored(LineAt(dr.anchor.x, UnderRow, WholeAdvance), "U") ELSE {})
        /\ { q \in dr.whole.s.px : q[3] = "S" } =
             (IF WholeAdvance > 0 /\ CallStyle.strikethrough_color.kind = "Custom" /\ StrikeRow # UnderRow
              THEN Colored(LineAt(dr.anchor.x, StrikeRow, WholeAdvance), "S") ELSE {})
        /\ WholeAdvance > 0 =>
             {StrikeRow, UnderRow} \subseteq
                 (dr.measure.bounding_box.y
                    .. dr.measure.bounding_box.y + dr.measure.bounding_box.h - 1)

\* "A" has been drawn with custom decorations at (0,0) under the Alphabetic
\* baseline on the font whose box is 3 high: the underline covers the columns
\* 0..3 of row 1, the strikethrough those of row 0
C17_Witness ==
    /\ DrawnWhole /\ dr.whole.tag = "Ok"
    /\ WholeText = <<65>>
    /\ CallStyle.underline_color.kind = "Custom" /\ CallStyle.strikethrough_color.kind = "Custom"
    /\ dr.anchor = Pt(0, 0) /\ dr.baseline = "Alphabetic"
    /\ CallStyle.font.bounding_box.height = 3
    /\ {<<0, 1, "U">>, <<3, 1, "U">>, <<0, 0, "S">>, <<3, 0, "S">>} \subseteq dr.whole.s.px
    /\ <<4, 1, "U">> \notin dr.whole.s.px

(***************************************************************************)
(* Whitespace.                                                             *)
(***************************************************************************)
\* the pixels px with the points pts written over them in colour c
Over(px, pts, c) ==
    IF c = "None" THEN px
    ELSE { q \in px : <<q[1], q[2]>> \notin pts } \cup Colored(pts, c)

\* the box of a gap: gap wide, as high as the font's box, top-left at
\* (p.x, p.y + baseline_offset(baseline) - max_ascent)
GapBox ==
    Rect(dr.anchor.x, WholeOrigin - CallStyle.font.bounding_box.max_ascent, dr.gap,
         CallStyle.font.bounding_box.height)

SequentialAfterIndex(f, gi) ==
    IF gi.tag # "Ok" THEN LookupResult(gi.tag, gi.err, 0, 0)
    ELSE IF get_glyph_bitmap_offset([f EXCEPT !.data = gi.data], gi.val).tag # "Ok"
         THEN LookupResult("Err", "Io", 0, 0)
    ELSE LookupResult("Ok", "", gi.val,
                      get_glyph_bitmap_offset([f EXCEPT !.data = gi.data], gi.val).val)

Sequential(i) ==
    SequentialAfterIndex(font, get_glyph_index(lk.build, font, lk.t[i].code_point))

Returned(i) == lk # NoRace /\ lk.t[i].pc = "done"

\* C20: with a cursor of its own over the same bytes, each of two lookups
\* reads where it sought and returns what it returns alone, however their
\* steps interleave; with one shared cursor a lookup returns something else
\* only if one of its reads began where it had not sought.
C20_Interleavings ==
    \A i \in 1 .. 2 :
        Returned(i) =>
            /\ lk.mode = "own" => lk.t[i].reads = lk.t[i].seeks
            /\ lk.t[i].reads = lk.t[i].seeks => lk.t[i].res = Sequential(i)

\* on a shared cursor the first lookup has read where the second one sought
\* and not where it sought itself: it returns a glyph, and not its own; the
\* second lookup returns its glyph
C20_Witness ==
    /\ Returned(1) /\ Returned(2)
    /\ lk.mode = "shared"
    /\ lk.t[1].res # Sequential(1)
    /\ lk.t[1].res.tag = "Ok" /\ Sequential(1).tag = "Ok"
    /\ lk.t[2].res = Sequential(2)
    /\ \E k \in 1 .. Len(lk.t[1].reads) :
          /\ lk.t[1].reads[k] # lk.t[1].seeks[k]
          /\ \E j \in 1 .. Len(lk.t[2].seeks) : lk.t[1].reads[k] = lk.t[2].seeks[j]

(***************************************************************************)
(* The fields of the handle, checked under Spec.                           *)
(***************************************************************************)
Loaded == Done /\ ld.result = Ok /\ font # NoFont

\* the two bounds entries of the accelerator table in use: the ones after
\* maxOverlap, or the ones 24 bytes further with the ink-bounds flag
MinBoundsUsed(r) ==
    IF (AccelFormatUsed(r) \div 256) % 2 = 1 THEN AccelUsed(r).inkmin ELSE AccelUsed(r).minb

MaxBoundsUsed(r) ==
    IF (AccelFormatUsed(r) \div 256) % 2 = 1 THEN AccelUsed(r).inkmax ELSE AccelUsed(r).maxb

\* C21 (as stated): after a successful load the bounding box of the handle is
\* (max.right_side_bearing - min.left_side_bearing, max.ascent + max.descent,
\* min.left_side_bearing, -max.descent) for the two bounds entries of the
\* accelerator table, and ascent and descent are the 32-bit values stored at
\* accelerator offset + 12 and + 16.
C21_BoundingBox ==
    Loaded =>
        /\ font.bounding_box[1] = MaxBoundsUsed(rcp).right_side_bearing
                                    - MinBoundsUsed(rcp).left_side_bearing
        /\ font.bounding_box[2] = MaxBoundsUsed(rcp).character_ascent
                                    + MaxBoundsUsed(rcp).character_descent
        /\ font.bounding_box[3] = MinBoundsUsed(rcp).left_side_bearing
        /\ font.bounding_box[4] = -MaxBoundsUsed(rcp).character_descent
        /\ font.ascent = AccelUsed(rcp).ascent
        /\ font.descent = AccelUsed(rcp).descent

\* C22 (as stated): after a successful load the encoding domain and the
\* default character of the handle are the five 16-bit fields stored after
\* the encoding table's format field, each handle field its own stored field
\* (min_char_or_byte2, max_char_or_byte2, min_byte1, max_byte1, default_char),
\* and the default character stays the fifth field until
\* override_default_char replaces it with its argument.
C22_EncodingFields ==
    Loaded =>
        /\ font.min_char_or_byte2 = rcp.enc.min2
        /\ font.max_char_or_byte2 = rcp.enc.max2
        /\ font.min_byte1 = rcp.enc.min1
        /\ font.max_byte1 = rcp.enc.max1
        /\ (out.op # "override_default_char") => font.default_char = rcp.enc.def
        /\ (out.op = "override_default_char") => font.default_char = out.val

(***************************************************************************)
(* Metrics entries, checked under SpecLookup.                              *)
(***************************************************************************)
\* the n bytes of the file at position at (0-based)
FileBytes(f, at, n) == SubSeq(f.data.bytes, at + 1, at + n)

\* a big-endian 16-bit field, unsigned and signed, digit by digit
Field16(b) == b[1] * 256 + b[2]

Signed16(b) == IF b[1] >= 128 THEN Field16(b) - 65536 ELSE Field16(b)

\* the entry the 12 bytes e hold: five signed fields and the attributes
StandardEntry(e) ==
    Metrics(Signed16(SubSeq(e, 1, 2)), Signed16(SubSeq(e, 3, 4)), Signed16(SubSeq(e, 5, 6)),
            Signed16(SubSeq(e, 7, 8)), Signed16(SubSeq(e, 9, 10)), Field16(SubSeq(e, 11, 12)))

\* C23 (as stated): on a font with standard metrics, the metrics of a glyph
\* index i whose 12-byte entry at metrics_data_location + 12 * i lies inside
\* the file are read successfully and are the entry those 12 bytes hold, five
\* big-endian signed 16-bit fields and the unsigned attributes; no byte
\* beyond the 12 is needed.
C23_StandardMetrics ==
    (/\ out.op = "get_metrics" /\ ~font.metrics_compressed
     /\ font.metrics_data_location + 12 * out.val + 12 <= Len(font.data.bytes)) =>
        /\ out.tag = "Ok"
        /\ out.metrics = StandardEntry(FileBytes(font, font.metrics_data_location + 12 * out.val, 12))

\* C24: on a font with compressed metrics, the metrics of a glyph index i
\* whose 5-byte entry at metrics_data_location + 5 * i lies inside the file
\* are (left bearing, right bearing, width, ascent, descent) = each of the 5
\* bytes minus 0x80, every field in -128 .. 127, and attributes 0.
C24_CompressedMetrics ==
    (/\ out.op = "get_metrics" /\ font.metrics_compressed
     /\ font.metrics_data_location + 5 * out.val + 5 <= Len(font.data.bytes)) =>
        LET e == FileBytes(font, font.metrics_data_location + 5 * out.val, 5)
        IN  /\ out.tag = "Ok"
            /\ out.metrics.left_side_bearing = e[1] - 128
            /\ out.metrics.right_side_bearing = e[2] - 128
            /\ out.metrics.character_width = e[3] - 128
            /\ out.metrics.character_ascent = e[4] - 128
            /\ out.metrics.character_descent = e[5] - 128
            /\ out.metrics.character_attributes = 0
            /\ \A v \in { out.metrics.left_side_bearing, out.metrics.right_side_bearing,
                         out.metrics.character_width, out.metrics.character_ascent,
                         out.metrics.character_descent } : -128 <= v /\ v <= 127
            /\ (rcp.keep = 100000 /\ out.val < Len(rcp.glyphs)) =>
                   out.metrics = rcp.glyphs[out.val + 1].m

\* the entry 0x81, 0x82, 0x83, 0x84, 0x85 of glyph index 4 has been read as
\* 1, 2, 3, 4, 5 with attributes 0
C24_Witness ==
    /\ out.op = "get_metrics" /\ font.metrics_compressed /\ out.tag = "Ok"
    /\ out.val = 4
    /\ FileBytes(font, font.metrics_data_location + 5 * out.val, 5) = <<129, 130, 131, 132, 133>>
    /\ out.metrics = Metrics(1, 2, 3, 4, 5, 0)

\* where the table of kind k starts in the container of r
OffsetOfTable(r, k) ==
    TableOffsets(r, r.toc, 8 + 16 * Len(r.toc))[CHOOSE j \in 1 .. Len(r.toc) : r.toc[j] = k]

\* the bitmap bytes of the container of r, glyph after glyph
BitmapData(r) ==
    Flatten([i \in 1 .. Len(r.glyphs) |-> GlyphData(r.glyphs[i], PadUnit(r.fmtB))])

\* C25: the four absolute offsets of the handle are bitmaps offset + 8,
\* bitmap_position_lut_location + 4 * glyph_count + 16, metrics offset + 6
\* (compressed) or + 8, and encodings offset + 14; entry 0 of the glyph
\* offsets, of the bitmap data, of the metrics and of the glyph indices is
\* stored there.
C25_AbsoluteOffsets ==
    Loaded =>
        /\ font.bitmap_position_lut_location = OffsetOfTable(rcp, TT_Bitmaps) + 8
        /\ font.bitmap_data_location
             = font.bitmap_position_lut_location + 4 * rcp.glyph_count + 16
        /\ font.metrics_data_location
             = OffsetOfTable(rcp, TT_Metrics) + (IF Compressed(rcp.fmtM) THEN 6 ELSE 8)
        /\ font.encoded_glyph_indices_location = OffsetOfTable(rcp, TT_BdfEncodings) + 14
        /\ (rcp.keep = 100000) =>
             /\ FileBytes(font, font.bitmap_position_lut_location, 4) = BE32(0)
             /\ FileBytes(font, font.bitmap_data_location, Len(BitmapData(rcp))) = BitmapData(rcp)
             /\ FileBytes(font, font.metrics_data_location, IF Compressed(rcp.fmtM) THEN 5 ELSE 12)
                  = (IF Compressed(rcp.fmtM) THEN CompMetricsBytes(rcp.glyphs[1].m)
                     ELSE StdMetricsBytes(rcp.glyphs[1].m))
             /\ FileBytes(font, font.encoded_glyph_indices_location, 2) = BE16(rcp.enc.idx[1])

\* a font with compressed metrics whose bitmaps table is the fourth of five
\* tables has been loaded: the metrics entries start 6 bytes into their table
C25_Witness ==
    /\ Loaded /\ font.metrics_compressed
    /\ Len(rcp.toc) = 5 /\ rcp.toc[4] = TT_Bitmaps
    /\ font.metrics_data_location = OffsetOfTable(rcp, TT_Metrics) + 6
    /\ font.bitmap_position_lut_location > font.metrics_data_location
    /\ font.bitmap_data_location = font.bitmap_position_lut_location + 40
    /\ FileBytes(font, font.metrics_data_location, 5) = <<128, 131, 132, 130, 128>>

(***************************************************************************)
(* The pure functions, checked under SpecCalc.                             *)
(***************************************************************************)
\* the least number of bytes, a multiple of align, whose bits hold width bits
LeastRowBytes(width, align) ==
    CHOOSE n \in 0 .. width + align :
        /\ n % align = 0 /\ 8 * n >= width
        /\ \A m \in 0 .. n - 1 : ~(m % align = 0 /\ 8 * m >= width)

\* C26 (as stated): for every width (a usize) and align in {1, 2, 4},
\* bytes_per_row(width, align) returns align * ceil(width / (8 * align)), the
\* smallest multiple of align bytes that holds width bits: 2 for (9, 1), 4
\* for (8, 4), 0 for width 0, never less than bytes_per_row(width, 1), and
\* a value of about 2^61 for the largest widths.
C26_BytesPerRow ==
    (calc.op = "bytes_per_row") =>
        /\ ~calc.res.panic
        /\ calc.width >= 0 =>
             /\ ~calc.res.huge
             /\ calc.res.v = LeastRowBytes(calc.width, calc.align)
             /\ calc.res.v = calc.align
                   * ((calc.width + 8 * calc.align - 1) \div (8 * calc.align))
             /\ calc.res.v >= bytes_per_row(calc.width, 1)
             /\ (calc.width = 9 /\ calc.align = 1) => calc.res.v = 2
             /\ (calc.width = 8 /\ calc.align = 4) => calc.res.v = 4
             /\ (calc.width = 0) => calc.res.v = 0
        /\ calc.width < 0 => calc.res.huge

\* the 32-bit pattern of a value, as its two 16-bit halves
Halves(v) == <<(v \div 65536) % 65536, v % 65536>>

\* the reference conversions (from_le_bytes, from_be_bytes), digit by digit:
\* the halves of a 32-bit value, a 16-bit value, and the signed readings
RefHalves(b, order) ==
    IF order = "le" THEN <<b[4] * 256 + b[3], b[2] * 256 + b[1]>>
    ELSE <<b[1] * 256 + b[2], b[3] * 256 + b[4]>>

RefU16(b, order) == IF order = "le" THEN b[2] * 256 + b[1] ELSE b[1] * 256 + b[2]

RefI16(b, order) ==
    IF RefU16(b, order) >= 32768 THEN RefU16(b, order) - 65536 ELSE RefU16(b, order)

\* an i32 is negative when its top bit is set, and then its low 31 bits
\* count up from -2^31
RefI32(b, order) ==
    IF RefHalves(b, order)[1] >= 32768
    THEN (RefHalves(b, order)[1] - 32768) * 65536 + RefHalves(b, order)[2] - 1073741824 - 1073741824
    ELSE RefHalves(b, order)[1] * 65536 + RefHalves(b, order)[2]

\* the encodings of a value
LE16(v) == <<v % 256, (v \div 256) % 256>>

OrderOf(op) == IF op \in {"u32_from_le_bytes_ref", "i32_from_le_bytes_ref",
                          "u16_from_le_bytes_ref", "i16_from_le_bytes_ref"} THEN "le" ELSE "be"

\* C27: each codec function returns what the reference conversion of its
\* width, byte order and signedness returns for the same bytes (a signed
\* result is the two's-complement reading of the pattern), and encoding the
\* result in the same byte order gives back the bytes: decoding inverts
\* encoding.
C27_Codec ==
    /\ calc.op \in {"u32_from_le_bytes_ref", "u32_from_be_bytes_ref"} =>
         /\ Halves(calc.res) = RefHalves(calc.bytes, OrderOf(calc.op))
         /\ (IF OrderOf(calc.op) = "le" THEN LE32(calc.res) ELSE BE32(calc.res)) = calc.bytes
    /\ calc.op \in {"i32_from_le_bytes_ref", "i32_from_be_bytes_ref"} =>
         /\ calc.res = RefI32(calc.bytes, OrderOf(calc.op))
         /\ (IF OrderOf(calc.op) = "le" THEN LE32(calc.res) ELSE BE32(calc.res)) = calc.bytes
    /\ calc.op \in {"u16_from_le_bytes_ref", "u16_from_be_bytes_ref"} =>
         /\ calc.res = RefU16(calc.bytes, OrderOf(calc.op))
         /\ (IF OrderOf(calc.op) = "le" THEN LE16(calc.res) ELSE BE16(calc.res)) = calc.bytes
    /\ calc.op \in {"i16_from_le_bytes_ref", "i16_from_be_bytes_ref"} =>
         /\ calc.res = RefI16(calc.bytes, OrderOf(calc.op))
         /\ -32768 <= calc.res /\ calc.res <= 32767
         /\ (IF OrderOf(calc.op) = "le" THEN LE16(calc.res) ELSE BE16(calc.res)) = calc.bytes

\* an array whose first byte has the top bit set has been decoded, most
\* significant byte first, to the negative i32 with the same pattern
C27_Witness ==
    /\ calc.op = "i32_from_be_bytes_ref" /\ calc.bytes = <<128, 0, 0, 1>>
    /\ calc.res = -2147483647
    /\ BE32(calc.res) = calc.bytes

(***************************************************************************)
(* The cursor, checked under SpecCursor.                                   *)
(***************************************************************************)
\* the handle as load_pcf_font returned it
AsLoaded == handle_of(ld)

\* C28: whatever lookups were made before on the handle, successful or
\* failed, and wherever they left the cursor, read_glyph_raw(cp, buf) returns
\* what it returns as the first call on the handle as loaded and leaves the
\* same bytes in the buffer; the calls change nothing in the handle but the
\* cursor of its byte source.
C28_CursorIndependence ==
    /\ (font # NoFont) => [font EXCEPT !.data = AsLoaded.data] = AsLoaded
    /\ (out.op = "read_glyph_raw" /\ calc.op = "cursor") =>
          /\ out.tag = read_glyph_raw(calc.build, AsLoaded, out.code_point,
                                      FreshBuf(Len(out.buf))).tag
          /\ out.err = read_glyph_raw(calc.build, AsLoaded, out.code_point,
                                      FreshBuf(Len(out.buf))).err
          /\ out.length = read_glyph_raw(calc.build, AsLoaded, out.code_point,
                                         FreshBuf(Len(out.buf))).length
          /\ out.width = read_glyph_raw(calc.build, AsLoaded, out.code_point,
                                        FreshBuf(Len(out.buf))).width
          /\ out.buf = read_glyph_raw(calc.build, AsLoaded, out.code_point,
                                      FreshBuf(Len(out.buf))).buf

\* the third call on a handle, after a failed one that left the cursor
\* elsewhere than the load did, has read a glyph of two bytes a row
C28_Witness ==
    /\ out.op = "read_glyph_raw" /\ calc.op = "cursor"
    /\ calc.n = 3 /\ calc.prev = "Err"
    /\ calc.from # AsLoaded.data.pos
    /\ out.tag = "Ok" /\ out.length = 6 /\ out.width = 9
    /\ SubSeq(out.buf, 1, 6) = <<255, 128, 129, 0, 255, 128>>

=============================================================================
